---------------------------- MODULE Spec2Model ----------------------------
(***************************************************************************)
(* MiniHub: the ledger access and transaction-construction layer           *)
(* (src/src/sdk/minihub-sdk.ts and its "simple" variant                    *)
(* src/unnamed/part_007) together with the page handlers that call it.     *)
(*                                                                         *)
(* JavaScript values are tagged records, so that truthiness (`x ? a : b`,  *)
(* `x || d`) and Number(x) are computed the way the engine computes them.  *)
(***************************************************************************)
EXTENDS Integers, Sequences, FiniteSets, TLC

VARIABLES ledger, call, result, ui, txs

vars == <<ledger, call, result, ui, txs>>

-----------------------------------------------------------------------------
(* Bounds of the model                                                     *)

MaxIds == 3
MaxSalary == 2
MaxTime == 2
MaxCount == 1

-----------------------------------------------------------------------------
(* JavaScript values                                                       *)

Undef == [t |-> "undefined"]
Null == [t |-> "null"]
NaN == [t |-> "NaN"]
Num(n) == [t |-> "number", n |-> n]
Str(s) == [t |-> "string", s |-> s]
Bool(b) == [t |-> "boolean", b |-> b]
Arr(a) == [t |-> "array", a |-> a]
UID(s) == [t |-> "object", id |-> Str(s)]

\* the outcome of an operation whose promise rejects / that throws
Threw == [t |-> "throw"]

Digits == <<"0", "1", "2", "3", "4", "5", "6", "7", "8", "9">>

DigitVal(c) == (CHOOSE i \in 1..10 : Digits[i] = c) - 1

IsDigit(c) == \E i \in 1..10 : Digits[i] = c

RECURSIVE DecChars(_)
\* the decimal text of a natural number, as the ledger's JSON renders a u64
DecChars(n) == IF n < 10 THEN <<Digits[n + 1]>>
               ELSE DecChars(n \div 10) \o <<Digits[(n % 10) + 1]>>

DecStr(n) == Str(DecChars(n))

RECURSIVE ParseDec(_, _)
ParseDec(s, acc) == IF s = <<>> THEN acc
                    ELSE ParseDec(Tail(s), 10 * acc + DigitVal(Head(s)))

\* JavaScript truthiness
Truthy(v) == CASE v.t = "undefined" -> FALSE
               [] v.t = "null" -> FALSE
               [] v.t = "NaN" -> FALSE
               [] v.t = "number" -> v.n # 0
               [] v.t = "string" -> Len(v.s) > 0
               [] v.t = "boolean" -> v.b
               [] OTHER -> TRUE

\* JavaScript a || b
Or(a, b) == IF Truthy(a) THEN a ELSE b

\* JavaScript Number(v)
Number(v) == CASE v.t = "undefined" -> NaN
               [] v.t = "null" -> Num(0)
               [] v.t = "NaN" -> NaN
               [] v.t = "number" -> v
               [] v.t = "boolean" -> Num(IF v.b THEN 1 ELSE 0)
               [] v.t = "string" ->
                    IF \A i \in 1..Len(v.s) : IsDigit(v.s[i])
                    THEN Num(ParseDec(v.s, 0)) ELSE NaN
               [] OTHER -> NaN

\* try { body } catch { return fallback }
TryCatch(v, fallback) == IF v = Threw THEN fallback ELSE v

-----------------------------------------------------------------------------
(* The deployment (PackageConfig) and the ledger read primitive            *)

\* object ids are JavaScript strings: character sequences
packageId == <<"p", "k", "g">>
jobBoardId == <<"B">>
userRegistryId == <<"U">>
employerRegistryId == <<"M">>
clockId == <<"0", "x", "6">>

\* an envelope returned by client.getObject
Envelope(hasData, hasContent, dataType, fields) ==
    [hasData |-> hasData, hasContent |-> hasContent,
     dataType |-> dataType, fields |-> fields]

NoFields == [id |-> Undef]
NoData == Envelope(FALSE, FALSE, "none", NoFields)
NoContent == Envelope(TRUE, FALSE, "none", NoFields)
Package == Envelope(TRUE, TRUE, "package", NoFields)
MoveObject(fields) == Envelope(TRUE, TRUE, "moveObject", fields)

\* fields.<name> : a property the object does not have reads as undefined
Get(fields, name) == IF name \in DOMAIN fields THEN fields[name] ELSE Undef

\* the same fields with one property removed
Without(fields, name) == [k \in (DOMAIN fields) \ {name} |-> fields[k]]

\* client.getObject({id}) over the objects obj, while the fetches of the ids
\* in down fail (the promise rejects)
getObject(obj, down, id) ==
    IF id \in down THEN Threw
    ELSE IF id \in DOMAIN obj THEN obj[id] ELSE NoData

\* the guard every decoder starts with
NotMoveObject(o) ==
    ~o.hasData \/ ~o.hasContent \/ o.dataType # "moveObject"


-----------------------------------------------------------------------------
(* Object Decoder (MiniHubSDK getters)                                     *)

\* fields.id.id : a TypeError when fields.id is undefined or null
IdOf(fields) ==
    LET v == Get(fields, "id") IN
    IF v.t \in {"undefined", "null"} THEN Threw
    ELSE IF "id" \in DOMAIN v THEN v.id ELSE Undef

\* the record built by getJobBoard from the fields of the envelope
JobBoardOf(fields) ==
    IF IdOf(fields) = Threw THEN Threw
    ELSE [t |-> "object",
          id |-> IdOf(fields),
          jobCount |-> Number(Get(fields, "job_count")),
          jobIds |-> Or(Get(fields, "job_ids"), Arr(<<>>))]

\* getJobBoard without its catch block
getJobBoardUncaught(obj, down) ==
    LET object == getObject(obj, down, jobBoardId) IN
    IF object = Threw THEN Threw
    ELSE IF NotMoveObject(object) THEN Null
    ELSE JobBoardOf(object.fields)

getJobBoard(obj, down) ==
    TryCatch(
      LET object == getObject(obj, down, jobBoardId) IN
      IF object = Threw THEN Threw
      ELSE IF NotMoveObject(object) THEN Null
      ELSE JobBoardOf(object.fields),
      Null)

\* the record built by getJob from the fields of the envelope
JobOf(fields) ==
    IF IdOf(fields) = Threw THEN Threw
    ELSE [t |-> "object",
          id |-> IdOf(fields),
          employer |-> Get(fields, "employer"),
          employerProfileId |-> Get(fields, "employer_profile_id"),
          title |-> Get(fields, "title"),
          description |-> Get(fields, "description"),
          salary |-> IF Truthy(Get(fields, "salary"))
                     THEN Number(Get(fields, "salary")) ELSE Undef,
          applicationCount |-> Number(Get(fields, "application_count")),
          hiredCandidate |-> Or(Get(fields, "hired_candidate"), Undef),
          isActive |-> Get(fields, "is_active"),
          deadline |-> Number(Get(fields, "deadline"))]

getJob(obj, down, jobId) ==
    TryCatch(
      LET object == getObject(obj, down, jobId) IN
      IF object = Threw THEN Threw
      ELSE IF NotMoveObject(object) THEN Null
      ELSE JobOf(object.fields),
      Null)

\* the record built by getUserProfile from the fields of the envelope
UserProfileOf(fields) ==
    IF IdOf(fields) = Threw THEN Threw
    ELSE [t |-> "object",
          id |-> IdOf(fields),
          userAddress |-> Get(fields, "user_address"),
          name |-> Get(fields, "name"),
          bio |-> Get(fields, "bio"),
          avatarUrl |-> Get(fields, "avatar_url"),
          skills |-> Or(Get(fields, "skills"), Arr(<<>>)),
          experienceYears |-> Number(Get(fields, "experience_years")),
          portfolioUrl |-> Get(fields, "portfolio_url"),
          createdAt |-> Number(Get(fields, "created_at")),
          updatedAt |-> Number(Get(fields, "updated_at"))]

getUserProfile(obj, down, profileId) ==
    TryCatch(
      LET object == getObject(obj, down, profileId) IN
      IF object = Threw THEN Threw
      ELSE IF NotMoveObject(object) THEN Null
      ELSE UserProfileOf(object.fields),
      Null)

\* the record built by getEmployerProfile from the fields of the envelope
EmployerProfileOf(fields) ==
    IF IdOf(fields) = Threw THEN Threw
    ELSE [t |-> "object",
          id |-> IdOf(fields),
          employerAddress |-> Get(fields, "employer_address"),
          companyName |-> Get(fields, "company_name"),
          description |-> Get(fields, "description"),
          logoUrl |-> Get(fields, "logo_url"),
          website |-> Get(fields, "website"),
          industry |-> Get(fields, "industry"),
          employeeCount |-> Number(Get(fields, "employee_count")),
          foundedYear |-> Number(Get(fields, "founded_year")),
          createdAt |-> Number(Get(fields, "created_at")),
          updatedAt |-> Number(Get(fields, "updated_at"))]

getEmployerProfile(obj, down, profileId) ==
    TryCatch(
      LET object == getObject(obj, down, profileId) IN
      IF object = Threw THEN Threw
      ELSE IF NotMoveObject(object) THEN Null
      ELSE EmployerProfileOf(object.fields),
      Null)

\* the record built by getUserRegistry from the fields of the envelope
UserRegistryOf(fields) ==
    IF IdOf(fields) = Threw THEN Threw
    ELSE [t |-> "object",
          id |-> IdOf(fields),
          userProfiles |-> Or(Get(fields, "user_profiles"), Arr(<<>>)),
          userCount |-> Number(Get(fields, "user_count"))]

getUserRegistry(obj, down) ==
    TryCatch(
      LET object == getObject(obj, down, userRegistryId) IN
      IF object = Threw THEN Threw
      ELSE IF NotMoveObject(object) THEN Null
      ELSE UserRegistryOf(object.fields),
      Null)

\* the record built by getEmployerRegistry from the fields of the envelope
EmployerRegistryOf(fields) ==
    IF IdOf(fields) = Threw THEN Threw
    ELSE [t |-> "object",
          id |-> IdOf(fields),
          employerProfiles |-> Or(Get(fields, "employer_profiles"), Arr(<<>>)),
          employerCount |-> Number(Get(fields, "employer_count"))]

getEmployerRegistry(obj, down) ==
    TryCatch(
      LET object == getObject(obj, down, employerRegistryId) IN
      IF object = Threw THEN Threw
      ELSE IF NotMoveObject(object) THEN Null
      ELSE EmployerRegistryOf(object.fields),
      Null)

-----------------------------------------------------------------------------
(* Registry Scanner, Side-Record Walker and Query Facade                   *)

\* the keys under which the two list primitives can fail in transport
OwnedKey(owner, struct) == <<"owned", struct>> \o owner
DynKey(parentId) == <<"dyn">> \o parentId

\* a scan that gives up when one entry is absent
NonNullOrNothing(seq) == IF \E i \in 1..Len(seq) : seq[i] = Null THEN <<>> ELSE seq

\* array.filter(x => x !== null)
NonNull(seq) == SelectSeq(seq, LAMBDA x : x # Null)

\* Promise.all(ids.map(fetch)): rejects when one of the fetches rejects
PromiseAll(seq) == IF \E i \in 1..Len(seq) : seq[i] = Threw THEN Threw ELSE Arr(seq)

\* a scan that pushes every decoded job onto the result twice
getAllJobsDoubled(obj, down) ==
    TryCatch(
      LET jobBoard == getJobBoard(obj, down) IN
      IF jobBoard = Threw THEN Threw
      ELSE IF jobBoard = Null \/ Len(jobBoard.jobIds.a) = 0 THEN Arr(<<>>)
      ELSE LET ids == jobBoard.jobIds.a
               jobs == PromiseAll([i \in 1..Len(ids) |-> getJob(obj, down, ids[i].s)])
           IN  IF jobs = Threw THEN Threw ELSE Arr(NonNull(jobs.a) \o NonNull(jobs.a)),
      Arr(<<>>))

getAllJobs(obj, down) ==
    TryCatch(
      LET jobBoard == getJobBoard(obj, down) IN
      IF jobBoard = Threw THEN Threw
      ELSE IF jobBoard = Null \/ Len(jobBoard.jobIds.a) = 0 THEN Arr(<<>>)
      ELSE LET ids == jobBoard.jobIds.a
               jobs == PromiseAll([i \in 1..Len(ids) |-> getJob(obj, down, ids[i].s)])
           IN  IF jobs = Threw THEN Threw ELSE Arr(NonNull(jobs.a)),
      Arr(<<>>))

\* an active-job filter that looks at isActive alone
getActiveJobsByFlag(obj, down) ==
    LET allJobs == getAllJobs(obj, down) IN
    IF allJobs = Threw THEN Threw
    ELSE Arr(SelectSeq(allJobs.a, LAMBDA job : Truthy(job.isActive)))

getActiveJobs(obj, down) ==
    LET allJobs == getAllJobs(obj, down) IN
    IF allJobs = Threw THEN Threw
    ELSE Arr(SelectSeq(allJobs.a,
               LAMBDA job : Truthy(job.isActive) /\ ~Truthy(job.hiredCandidate)))

\* a filter on the employer's profile id
getJobsByEmployerProfile(obj, down, employerAddress) ==
    LET allJobs == getAllJobs(obj, down) IN
    Arr(SelectSeq(allJobs.a, LAMBDA job : job.employerProfileId = employerAddress))

getJobsByEmployer(obj, down, employerAddress) ==
    LET allJobs == getAllJobs(obj, down) IN
    IF allJobs = Threw THEN Threw
    ELSE Arr(SelectSeq(allJobs.a, LAMBDA job : job.employer = employerAddress))

getAllUserProfiles(obj, down) ==
    TryCatch(
      LET registry == getUserRegistry(obj, down) IN
      IF registry = Threw THEN Threw
      ELSE IF registry = Null \/ Len(registry.userProfiles.a) = 0 THEN Arr(<<>>)
      ELSE LET ids == registry.userProfiles.a
               profiles == PromiseAll(
                   [i \in 1..Len(ids) |-> getUserProfile(obj, down, ids[i].s)])
           IN  IF profiles = Threw THEN Threw ELSE Arr(NonNull(profiles.a)),
      Arr(<<>>))

getAllEmployerProfiles(obj, down) ==
    TryCatch(
      LET registry == getEmployerRegistry(obj, down) IN
      IF registry = Threw THEN Threw
      ELSE IF registry = Null \/ Len(registry.employerProfiles.a) = 0 THEN Arr(<<>>)
      ELSE LET ids == registry.employerProfiles.a
               profiles == PromiseAll(
                   [i \in 1..Len(ids) |-> getEmployerProfile(obj, down, ids[i].s)])
           IN  IF profiles = Threw THEN Threw ELSE Arr(NonNull(profiles.a)),
      Arr(<<>>))

\* array.find(x => x[field] === value) || null
FindOrNull(seq, field, value) ==
    LET hits == {i \in 1..Len(seq) : seq[i][field] = value} IN
    IF hits = {} THEN Null
    ELSE Or(seq[CHOOSE i \in hits : \A k \in hits : i <= k], Null)

getUserProfileByAddress(obj, down, userAddress) ==
    LET allProfiles == getAllUserProfiles(obj, down) IN
    IF allProfiles = Threw THEN Threw
    ELSE FindOrNull(allProfiles.a, "userAddress", userAddress)

getEmployerProfileByAddress(obj, down, employerAddress) ==
    LET allProfiles == getAllEmployerProfiles(obj, down) IN
    IF allProfiles = Threw THEN Threw
    ELSE FindOrNull(allProfiles.a, "employerAddress", employerAddress)

\* client.getOwnedObjects({owner, filter: {StructType}}): the envelopes of the
\* objects of that struct the address owns
getOwnedObjects(L, down, owner, struct) ==
    IF OwnedKey(owner, struct) \in down THEN Threw
    ELSE IF <<owner, struct>> \in DOMAIN L.owned
         THEN Arr([i \in 1..Len(L.owned[<<owner, struct>>]) |->
                      L.obj[L.owned[<<owner, struct>>][i]]])
         ELSE Arr(<<>>)

\* client.getDynamicFields({parentId}): the ids of the attached side-records
getDynamicFields(L, down, parentId) ==
    IF DynKey(parentId) \in down THEN Threw
    ELSE IF parentId \in DOMAIN L.dyn THEN Arr(L.dyn[parentId]) ELSE Arr(<<>>)

\* the record pushed by getEmployerCaps for one owned object
EmployerCapOf(fields) ==
    IF IdOf(fields) = Threw THEN Threw
    ELSE [t |-> "object", id |-> IdOf(fields), jobId |-> Get(fields, "job_id")]

getEmployerCaps(L, down, ownerAddress) ==
    TryCatch(
      LET objects == getOwnedObjects(L, down, ownerAddress.s, "EmployerCap") IN
      IF objects = Threw THEN Threw
      ELSE LET caps == PromiseAll(
                   [i \in 1..Len(objects.a) |->
                      IF NotMoveObject(objects.a[i]) THEN Null
                      ELSE EmployerCapOf(objects.a[i].fields)])
           IN  IF caps = Threw THEN Threw ELSE Arr(NonNull(caps.a)),
      Arr(<<>>))

\* the record built for one side-record of a job
ApplicationOf(fields) ==
    IF IdOf(fields) = Threw THEN Threw
    ELSE [t |-> "object",
          id |-> IdOf(fields),
          candidate |-> Get(fields, "candidate"),
          userProfileId |-> Get(fields, "user_profile_id"),
          jobId |-> Get(fields, "job_id"),
          coverMessage |-> Get(fields, "cover_message"),
          timestamp |-> Number(Get(fields, "timestamp")),
          cvUrl |-> Get(fields, "cv_url")]

\* a walker that answers null for a parent without attachments
getJobApplicationsOrNull(L, down, jobId) ==
    TryCatch(
      LET dynamicFields == getDynamicFields(L, down, jobId) IN
      IF dynamicFields = Threw THEN Threw
      ELSE IF Len(dynamicFields.a) = 0 THEN Null
      ELSE LET applications == PromiseAll(
                   [i \in 1..Len(dynamicFields.a) |->
                      LET fieldObject == getObject(L.obj, down, dynamicFields.a[i]) IN
                      IF fieldObject = Threw THEN Threw
                      ELSE IF NotMoveObject(fieldObject) THEN Null
                      ELSE ApplicationOf(fieldObject.fields)])
           IN  IF applications = Threw THEN Threw ELSE Arr(NonNull(applications.a)),
      Arr(<<>>))

\* every attached entry is fetched in turn inside the one try block
getJobApplications(L, down, jobId) ==
    TryCatch(
      LET dynamicFields == getDynamicFields(L, down, jobId) IN
      IF dynamicFields = Threw THEN Threw
      ELSE LET applications == PromiseAll(
                   [i \in 1..Len(dynamicFields.a) |->
                      LET fieldObject == getObject(L.obj, down, dynamicFields.a[i]) IN
                      IF fieldObject = Threw THEN Threw
                      ELSE IF NotMoveObject(fieldObject) THEN Null
                      ELSE ApplicationOf(fieldObject.fields)])
           IN  IF applications = Threw THEN Threw ELSE Arr(NonNull(applications.a)),
      Arr(<<>>))

\* getApplication returns at the first entry whose candidate matches, so the
\* entries after it are never fetched; index is not used by the code
getApplication(L, down, jobId, candidateAddress, index) ==
    TryCatch(
      LET job == getObject(L.obj, down, jobId) IN
      IF job = Threw THEN Threw
      ELSE IF ~job.hasData THEN Null
      ELSE LET dynamicFields == getDynamicFields(L, down, jobId) IN
           IF dynamicFields = Threw THEN Threw
           ELSE LET Hit(i) ==
                      LET o == getObject(L.obj, down, dynamicFields.a[i]) IN
                      /\ o # Threw
                      /\ ~NotMoveObject(o)
                      /\ Get(o.fields, "candidate") = candidateAddress
                    Fails(i) ==
                      LET o == getObject(L.obj, down, dynamicFields.a[i]) IN
                      o = Threw
                    Stops == {i \in 1..Len(dynamicFields.a) : Hit(i) \/ Fails(i)}
                IN  IF Stops = {} THEN Null
                    ELSE LET i == CHOOSE k \in Stops : \A m \in Stops : k <= m IN
                         IF Fails(i) THEN Threw
                         ELSE ApplicationOf(getObject(L.obj, down, dynamicFields.a[i]).fields),
      Null)

getUserApplications(L, down, userAddress) ==
    LET allJobs == getAllJobs(L.obj, down) IN
    IF allJobs = Threw THEN Threw
    ELSE LET perJob == PromiseAll(
                 [i \in 1..Len(allJobs.a) |->
                    LET jobApplications == getJobApplications(L, down, allJobs.a[i].id.s) IN
                    IF jobApplications = Threw THEN Threw
                    ELSE Arr(SelectSeq(jobApplications.a,
                                       LAMBDA app : app.candidate = userAddress))])
             Flat[k \in 0..Len(allJobs.a)] ==
                 IF k = 0 THEN <<>> ELSE Flat[k - 1] \o perJob.a[k].a
         IN  IF perJob = Threw THEN Threw ELSE Arr(Flat[Len(allJobs.a)])

\* a > b on JavaScript numbers: false when either side is NaN
Gt(a, b) == a.t = "number" /\ b.t = "number" /\ a.n > b.n

\* a + b on JavaScript numbers
Plus(a, b) == IF a.t = "number" /\ b.t = "number" THEN Num(a.n + b.n) ELSE NaN

isJobDeadlinePassed(job, now) == Gt(Num(now), job.deadline)

\* a helper that goes by the flag and the deadline alone
isJobActiveUnlessFilled(job, now) ==
    Truthy(job.isActive) /\ ~isJobDeadlinePassed(job, now)

isJobActive(job, now) ==
    Truthy(job.isActive) /\ ~Truthy(job.hiredCandidate) /\ ~isJobDeadlinePassed(job, now)

\* statistics whose job total is counted from the scan
StatisticsOfScan(jobBoard, userRegistry, employerRegistry, allJobs, now) ==
    LET Sum[k \in 0..Len(allJobs.a)] ==
            IF k = 0 THEN Num(0) ELSE Plus(Sum[k - 1], allJobs.a[k].applicationCount)
    IN  [t |-> "object",
         totalJobs |-> Num(Len(allJobs.a)),
         activeJobs |-> Num(Len(SelectSeq(allJobs.a, LAMBDA job : isJobActive(job, now)))),
         totalApplications |-> Sum[Len(allJobs.a)],
         totalUsers |-> Or(IF userRegistry = Null THEN Undef
                           ELSE userRegistry.userCount, Num(0)),
         totalEmployers |-> Or(IF employerRegistry = Null THEN Undef
                               ELSE employerRegistry.employerCount, Num(0)),
         filledJobs |-> Num(Len(SelectSeq(allJobs.a,
                                  LAMBDA job : Truthy(job.hiredCandidate))))]

\* the result getStatistics builds from its four sub-reads
StatisticsOf(jobBoard, userRegistry, employerRegistry, allJobs, now) ==
    LET Sum[k \in 0..Len(allJobs.a)] ==
            IF k = 0 THEN Num(0) ELSE Plus(Sum[k - 1], allJobs.a[k].applicationCount)
    IN  [t |-> "object",
         totalJobs |-> Or(IF jobBoard = Null THEN Undef ELSE jobBoard.jobCount, Num(0)),
         activeJobs |-> Num(Len(SelectSeq(allJobs.a, LAMBDA job : isJobActive(job, now)))),
         totalApplications |-> Sum[Len(allJobs.a)],
         totalUsers |-> Or(IF userRegistry = Null THEN Undef
                           ELSE userRegistry.userCount, Num(0)),
         totalEmployers |-> Or(IF employerRegistry = Null THEN Undef
                               ELSE employerRegistry.employerCount, Num(0)),
         filledJobs |-> Num(Len(SelectSeq(allJobs.a,
                                  LAMBDA job : Truthy(job.hiredCandidate))))]

\* getStatistics: four concurrent sub-reads, each with its own transport
\* outcome (downs[1..4]: Board, UserRegistry, EmployerRegistry, job scan)
getStatistics(obj, downs, now) ==
    LET reads == PromiseAll(<<getJobBoard(obj, downs[1]),
                              getUserRegistry(obj, downs[2]),
                              getEmployerRegistry(obj, downs[3]),
                              getAllJobs(obj, downs[4])>>)
    IN  IF reads = Threw THEN Threw
        ELSE StatisticsOf(reads.a[1], reads.a[2], reads.a[3], reads.a[4], now)

-----------------------------------------------------------------------------
(* The "simple" SDK variant: find-by-owner                                 *)

\* the record the simple variant builds for the matching profile
SimpleUserProfileOf(fields, objectId) ==
    [t |-> "object",
     id |-> Or(LET v == Get(fields, "id") IN
               IF v.t = "object" /\ "id" \in DOMAIN v THEN v.id ELSE Undef,
               Str(objectId)),
     userAddress |-> Get(fields, "user_address"),
     name |-> Or(Get(fields, "name"), Str(<<>>)),
     bio |-> Or(Get(fields, "bio"), Str(<<>>)),
     avatarUrl |-> Or(Get(fields, "avatar_url"), Str(<<>>)),
     skills |-> Or(Get(fields, "skills"), Arr(<<>>)),
     experienceYears |-> Number(Or(Get(fields, "experience_years"), Num(0))),
     portfolioUrl |-> Or(Get(fields, "portfolio_url"), Str(<<>>)),
     createdAt |-> Number(Or(Get(fields, "created_at"), Num(0))),
     updatedAt |-> Number(Or(Get(fields, "updated_at"), Num(0)))]

\* the registry is read, then each listed profile is fetched in turn (a failed
\* fetch is caught per profile) until one has user_address === userAddress
SimpleGetUserProfileByAddress(obj, down, userAddress) ==
    TryCatch(
      LET registryObj == getObject(obj, down, userRegistryId) IN
      IF registryObj = Threw THEN Threw
      ELSE IF NotMoveObject(registryObj) THEN Null
      ELSE LET list == Get(registryObj.fields, "user_profiles") IN
           IF ~(Truthy(list) /\ list.t = "array") THEN Null
           ELSE LET Match(i) ==
                      LET profileObj == getObject(obj, down, list.a[i].s) IN
                      /\ profileObj # Threw
                      /\ ~NotMoveObject(profileObj)
                      /\ Get(profileObj.fields, "user_address") = userAddress
                    Hits == {i \in 1..Len(list.a) : Match(i)}
                IN  IF Hits = {} THEN Null
                    ELSE LET i == CHOOSE k \in Hits : \A m \in Hits : k <= m IN
                         SimpleUserProfileOf(getObject(obj, down, list.a[i].s).fields,
                                             list.a[i].s),
      Null)

\* the first object of struct EmployerProfile the address owns
SimpleGetEmployerProfileByAddress(L, down, employerAddress) ==
    TryCatch(
      LET objects == getOwnedObjects(L, down, employerAddress.s, "EmployerProfile") IN
      IF objects = Threw THEN Threw
      ELSE IF Len(objects.a) = 0 THEN Null
      ELSE LET profileObj == objects.a[1] IN
           IF NotMoveObject(profileObj) THEN Null
           ELSE EmployerProfileOf(profileObj.fields),
      Null)

-----------------------------------------------------------------------------
(* Ledger contents: the fields the contract stores for each record type    *)

\* addresses and texts are character sequences (JavaScript strings)
Address(role, i) == Str(<<role, Digits[i + 1]>>)
Employers == {Address("e", 1), Address("e", 2)}
Candidates == {Address("c", 1), Address("c", 2)}

\* the id of the i-th object of a kind
ObjectId(kind, i) == <<kind, Digits[i + 1]>>
SomeText == Str(<<"a">>)

JobFields(id, employer, salary, count, hired, active, deadline) ==
    [id |-> UID(id),
     employer |-> employer,
     employer_profile_id |-> Str(<<"p">>),
     title |-> SomeText,
     description |-> SomeText,
     salary |-> salary,
     application_count |-> count,
     hired_candidate |-> hired,
     is_active |-> Bool(active),
     deadline |-> deadline]

UserProfileFields(id, owner, years) ==
    [id |-> UID(id),
     user_address |-> owner,
     name |-> SomeText,
     bio |-> SomeText,
     avatar_url |-> SomeText,
     skills |-> Arr(<<SomeText>>),
     experience_years |-> years,
     portfolio_url |-> SomeText,
     created_at |-> DecStr(0),
     updated_at |-> DecStr(0)]

EmployerProfileFields(id, owner, employees) ==
    [id |-> UID(id),
     employer_address |-> owner,
     company_name |-> SomeText,
     description |-> SomeText,
     logo_url |-> SomeText,
     website |-> SomeText,
     industry |-> SomeText,
     employee_count |-> employees,
     founded_year |-> DecStr(0),
     created_at |-> DecStr(0),
     updated_at |-> DecStr(0)]

JobBoardFields(ids) ==
    [id |-> UID(jobBoardId),
     job_count |-> DecStr(Len(ids)),
     job_ids |-> Arr(ids)]

UserRegistryFields(ids) ==
    [id |-> UID(userRegistryId),
     user_profiles |-> Arr(ids),
     user_count |-> DecStr(Len(ids))]

EmployerRegistryFields(ids) ==
    [id |-> UID(employerRegistryId),
     employer_profiles |-> Arr(ids),
     employer_count |-> DecStr(Len(ids))]

\* a ledger: the objects by id, the dynamic fields attached to each parent, and
\* the objects each address owns
Ledger(obj, dyn, owned) == [obj |-> obj, dyn |-> dyn, owned |-> owned]

NoCall == [op |-> "none"]

-----------------------------------------------------------------------------
(* SpecScan: the Query Facade over ledgers in which one collection is      *)
(* populated (jobs, user profiles, employer profiles, or the applications  *)
(* attached to one job), with entries that may fail to decode and fetches  *)
(* that may fail in transport                                              *)

ApplicationFields(id, jobId, candidate) ==
    [id |-> UID(id),
     candidate |-> candidate,
     user_profile_id |-> Str(<<"p">>),
     job_id |-> Str(jobId),
     cover_message |-> SomeText,
     timestamp |-> DecStr(1),
     cv_url |-> SomeText]

EmployerCapFields(id, jobId) == [id |-> UID(id), job_id |-> Str(jobId)]

\* a plain open job
OpenJob(i, employer) ==
    JobFields(ObjectId("job", i), employer, Null, DecStr(0), Null, TRUE, DecStr(1))

\* the i-th entry of a collection, well-formed
ScanFields(kind, i) ==
    CASE kind = "job" -> OpenJob(i, IF i % 2 = 1 THEN Address("e", 1) ELSE Address("e", 2))
      [] kind = "user" ->
           UserProfileFields(ObjectId("user", i), IF i % 2 = 1 THEN Address("c", 1) ELSE Address("c", 2), DecStr(0))
      [] kind = "employer" ->
           EmployerProfileFields(ObjectId("employer", i), IF i % 2 = 1 THEN Address("e", 1) ELSE Address("e", 2), DecStr(0))
      [] kind = "app" ->
           ApplicationFields(ObjectId("app", i), ObjectId("job", 1), IF i % 2 = 1 THEN Address("c", 1) ELSE Address("c", 2))

ScanEnvelope(kind, i, variant) ==
    CASE variant = "ok" -> MoveObject(ScanFields(kind, i))
      [] variant = "nodata" -> NoData
      [] variant = "package" -> Package
      [] variant = "noid" -> MoveObject(Without(ScanFields(kind, i), "id"))

IdList(kind, n) == [i \in 1..n |-> Str(ObjectId(kind, i))]

\* the ids, among the first n of a collection, that an address owns
RECURSIVE OwnedIds(_, _, _, _)
OwnedIds(kind, variants, n, owner) ==
    IF n = 0 THEN <<>>
    ELSE OwnedIds(kind, variants, n - 1, owner) \o
         (IF variants[n] \in {"ok", "noid"}
             /\ owner = (IF n % 2 = 1 THEN Address("e", 1) ELSE Address("e", 2))
          THEN <<ObjectId(kind, n)>> ELSE <<>>)

\* the ledger of one scenario: variants[i] says how the i-th entry answers,
\* root how the registry object (or, for "app", the capability) answers
ScanLedger(kind, variants, root) ==
    LET n == Len(variants)
        entries == [id \in {ObjectId(kind, i) : i \in 1..n} |->
                      LET i == CHOOSE k \in 1..n : ObjectId(kind, k) = id IN
                      ScanEnvelope(kind, i, variants[i])]
        Root(fields, mine) == IF ~mine \/ root = "ok" THEN MoveObject(fields)
                              ELSE IF root = "nodata" THEN NoData ELSE Package
        jobs == IF kind = "job" THEN n ELSE IF kind = "app" THEN 1 ELSE 0
        roots ==
          (jobBoardId :> Root(JobBoardFields(IdList("job", jobs)), kind = "job"))
          @@ (userRegistryId :>
                Root(UserRegistryFields(IdList("user", IF kind = "user" THEN n ELSE 0)),
                     kind = "user"))
          @@ (employerRegistryId :>
                Root(EmployerRegistryFields(
                       IdList("employer", IF kind = "employer" THEN n ELSE 0)),
                     kind = "employer"))
        extra ==
          IF kind = "app"
          THEN (ObjectId("job", 1) :> MoveObject(OpenJob(1, Address("e", 1))))
               @@ (ObjectId("cap", 1) :> Root(EmployerCapFields(ObjectId("cap", 1), ObjectId("job", 1)), TRUE))
          ELSE <<>>
        dyn == IF kind = "app"
               THEN (ObjectId("job", 1) :> [i \in 1..n |-> ObjectId("app", i)]) ELSE <<>>
        owned ==
          IF kind = "app" THEN (<<Address("e", 1).s, "EmployerCap">> :> <<ObjectId("cap", 1)>>)
          ELSE IF kind = "employer"
          THEN (<<Address("e", 1).s, "EmployerProfile">> :> OwnedIds(kind, variants, n, Address("e", 1)))
               @@ (<<Address("e", 2).s, "EmployerProfile">> :> OwnedIds(kind, variants, n, Address("e", 2)))
          ELSE <<>>
    IN  Ledger(entries @@ extra @@ roots, dyn, owned)

RECURSIVE SeqsUpTo(_, _)
\* the sequences over S of length at most n
SeqsUpTo(S, n) ==
    IF n = 0 THEN {<<>>}
    ELSE SeqsUpTo(S, n - 1) \cup
         {Append(q, x) : q \in {r \in SeqsUpTo(S, n - 1) : Len(r) = n - 1}, x \in S}

\* everything a call can fetch
FetchKeys(L) ==
    DOMAIN L.obj
      \cup {DynKey(j) : j \in DOMAIN L.dyn}
      \cup {OwnedKey(k[1], k[2]) : k \in DOMAIN L.owned}

\* the transport outcomes of one call: nothing fails, one fetch fails, or the
\* endpoint is unreachable
ScanDowns(L) == {{}, FetchKeys(L)} \cup {{k} : k \in FetchKeys(L)}

ScanInit ==
    /\ ledger \in {ScanLedger(kind, variants, root) :
                      kind \in {"job", "user", "employer", "app"},
                      variants \in SeqsUpTo({"ok", "nodata", "noid"}, MaxIds),
                      root \in {"ok", "nodata", "package"}}
    /\ call = NoCall
    /\ result = Undef
    /\ ui = <<>>
    /\ txs = <<>>

\* a read leaves the ledger as it is, so one call per behaviour covers them all
Returns(op, args, down, value) ==
    /\ call = NoCall
    /\ call' = [op |-> op, args |-> args, down |-> down]
    /\ result' = value
    /\ UNCHANGED <<ledger, ui, txs>>

CallGetJob ==
    \E down \in ScanDowns(ledger) :
       Returns("getJob", <<ObjectId("job", 1)>>, down, getJob(ledger.obj, down, ObjectId("job", 1)))

CallGetUserProfile ==
    \E down \in ScanDowns(ledger) :
       Returns("getUserProfile", <<ObjectId("user", 1)>>, down,
               getUserProfile(ledger.obj, down, ObjectId("user", 1)))

CallGetEmployerProfile ==
    \E down \in ScanDowns(ledger) :
       Returns("getEmployerProfile", <<ObjectId("employer", 1)>>, down,
               getEmployerProfile(ledger.obj, down, ObjectId("employer", 1)))

CallGetJobBoard ==
    \E down \in ScanDowns(ledger) :
       Returns("getJobBoard", <<>>, down, getJobBoard(ledger.obj, down))

CallGetAllJobs ==
    \E down \in ScanDowns(ledger) :
       Returns("getAllJobs", <<>>, down, getAllJobs(ledger.obj, down))

CallGetActiveJobs ==
    \E down \in ScanDowns(ledger) :
       Returns("getActiveJobs", <<>>, down, getActiveJobs(ledger.obj, down))

CallGetJobsByEmployer ==
    \E down \in ScanDowns(ledger), e \in Employers :
       Returns("getJobsByEmployer", <<e>>, down, getJobsByEmployer(ledger.obj, down, e))

CallGetAllUserProfiles ==
    \E down \in ScanDowns(ledger) :
       Returns("getAllUserProfiles", <<>>, down, getAllUserProfiles(ledger.obj, down))

CallGetAllEmployerProfiles ==
    \E down \in ScanDowns(ledger) :
       Returns("getAllEmployerProfiles", <<>>, down,
               getAllEmployerProfiles(ledger.obj, down))

CallGetUserProfileByAddress ==
    \E down \in ScanDowns(ledger), a \in Candidates :
       Returns("getUserProfileByAddress", <<a>>, down,
               getUserProfileByAddress(ledger.obj, down, a))

CallGetEmployerProfileByAddress ==
    \E down \in ScanDowns(ledger), a \in Employers :
       Returns("getEmployerProfileByAddress", <<a>>, down,
               getEmployerProfileByAddress(ledger.obj, down, a))

CallSimpleGetUserProfileByAddress ==
    \E down \in ScanDowns(ledger), a \in Candidates :
       Returns("simple.getUserProfileByAddress", <<a>>, down,
               SimpleGetUserProfileByAddress(ledger.obj, down, a))

CallSimpleGetEmployerProfileByAddress ==
    \E down \in ScanDowns(ledger), a \in Employers :
       Returns("simple.getEmployerProfileByAddress", <<a>>, down,
               SimpleGetEmployerProfileByAddress(ledger, down, a))

CallGetEmployerCaps ==
    \E down \in ScanDowns(ledger) :
       Returns("getEmployerCaps", <<Address("e", 1)>>, down, getEmployerCaps(ledger, down, Address("e", 1)))

CallGetJobApplications ==
    \E down \in ScanDowns(ledger) :
       Returns("getJobApplications", <<ObjectId("job", 1)>>, down,
               getJobApplications(ledger, down, ObjectId("job", 1)))

CallGetApplication ==
    \E down \in ScanDowns(ledger), a \in Candidates, index \in 0..1 :
       Returns("getApplication", <<ObjectId("job", 1), a, index>>, down,
               getApplication(ledger, down, ObjectId("job", 1), a, index))

CallGetUserApplications ==
    \E down \in ScanDowns(ledger), a \in Candidates :
       Returns("getUserApplications", <<a>>, down,
               getUserApplications(ledger, down, a))

CallGetStatistics ==
    \E down \in ScanDowns(ledger), now \in 0..MaxTime :
       Returns("getStatistics", <<now>>, down,
               getStatistics(ledger.obj, <<down, down, down, down>>, now))

SpecScan ==
    ScanInit /\ [][\/ CallGetJob
                   \/ CallGetUserProfile
                   \/ CallGetEmployerProfile
                   \/ CallGetJobBoard
                   \/ CallGetAllJobs
                   \/ CallGetActiveJobs
                   \/ CallGetJobsByEmployer
                   \/ CallGetAllUserProfiles
                   \/ CallGetAllEmployerProfiles
                   \/ CallGetUserProfileByAddress
                   \/ CallGetEmployerProfileByAddress
                   \/ CallSimpleGetUserProfileByAddress
                   \/ CallSimpleGetEmployerProfileByAddress
                   \/ CallGetEmployerCaps
                   \/ CallGetJobApplications
                   \/ CallGetApplication
                   \/ CallGetUserApplications
                   \/ CallGetStatistics]_vars

-----------------------------------------------------------------------------
(* SpecDecode: each decoder applied to one envelope                        *)

\* the one object of the ledger and the envelope its fetch answers with: no
\* data, no content, a package, the record, or the record less one property.
\* A u64 arrives as decimal text, which is what the decoders pass to Number();
\* the salary also as a number, which is what the declared type of the stored
\* Job says (salary: number | null)
DecodeInit ==
    /\ \E in \in
           LET u64(max) == {DecStr(n) : n \in 0..max}
               EnvelopesOf(fieldSets) ==
                 {NoData, NoContent, Package}
                   \cup {MoveObject(f) : f \in fieldSets}
                   \cup UNION {{MoveObject(Without(f, k)) : k \in DOMAIN f} : f \in fieldSets}
           IN  [id : {ObjectId("job", 1)},
                env : EnvelopesOf(
                        {JobFields(ObjectId("job", 1), Address("e", 1), s, c, h, a, d) :
                            s \in {Null} \cup u64(MaxSalary) \cup {Num(v) : v \in 0..MaxSalary},
                            c \in u64(MaxCount),
                            h \in {Null, Address("c", 1)}, a \in BOOLEAN, d \in u64(MaxTime)})]
               \cup [id : {ObjectId("user", 1)},
                     env : EnvelopesOf({UserProfileFields(ObjectId("user", 1), o, y) :
                                           o \in Candidates, y \in u64(MaxCount)})]
               \cup [id : {ObjectId("employer", 1)},
                     env : EnvelopesOf({EmployerProfileFields(ObjectId("employer", 1), o, n) :
                                           o \in Employers, n \in u64(MaxCount)})]
               \cup [id : {jobBoardId},
                     env : EnvelopesOf({JobBoardFields(IdList("job", n)) : n \in 0..MaxIds})] :
          ledger = Ledger((in.id :> in.env), <<>>, <<>>)
    /\ call = NoCall
    /\ result = Undef
    /\ ui = <<>>
    /\ txs = <<>>

SpecDecode ==
    DecodeInit /\ [][\/ CallGetJob
                     \/ CallGetUserProfile
                     \/ CallGetEmployerProfile
                     \/ CallGetJobBoard]_vars

\* the properties the contract always stores for each record type (the two
\* Option fields of a Job are the only optional ones)
RequiredFields(op) ==
    CASE op = "getJob" ->
           {"id", "employer", "employer_profile_id", "title", "description",
            "application_count", "is_active", "deadline"}
      [] op = "getUserProfile" ->
           {"id", "user_address", "name", "bio", "avatar_url", "skills",
            "experience_years", "portfolio_url", "created_at", "updated_at"}
      [] op = "getEmployerProfile" ->
           {"id", "employer_address", "company_name", "description",
            "logo_url", "website", "industry", "employee_count",
            "founded_year", "created_at", "updated_at"}
      [] op = "getJobBoard" -> {"id", "job_count", "job_ids"}

Malformed(op, env) ==
    \/ NotMoveObject(env)
    \/ \E k \in RequiredFields(op) : k \notin DOMAIN env.fields

\* C1: for every malformed envelope (no content, a kind other than the
\* structured record, or a required field missing) the decoders getJob,
\* getUserProfile, getEmployerProfile and getJobBoard return null, and they
\* never throw.
C1_MalformedDecodesToAbsent ==
    call.op \in {"getJob", "getUserProfile", "getEmployerProfile", "getJobBoard"}
      => LET id == IF call.op = "getJobBoard" THEN jobBoardId ELSE call.args[1] IN
         /\ result # Threw
         /\ Malformed(call.op, getObject(ledger.obj, {}, id)) => result = Null

\* the registry object a scan walks and the property holding its list
RegistryOf(op) ==
    CASE op = "getAllJobs" -> [id |-> jobBoardId, list |-> "job_ids"]
      [] op = "getAllUserProfiles" -> [id |-> userRegistryId, list |-> "user_profiles"]
      [] op = "getAllEmployerProfiles" ->
           [id |-> employerRegistryId, list |-> "employer_profiles"]

\* the ids the registry lists, as far as the call can read them
Listed(L, down, op) ==
    LET r == RegistryOf(op) IN
    IF r.id \in down \/ NotMoveObject(L.obj[r.id]) THEN <<>>
    ELSE L.obj[r.id].fields[r.list].a

\* the fetch of id answers, with a structured record that carries its id
Decodes(L, down, id) ==
    /\ id \notin down
    /\ id \in DOMAIN L.obj
    /\ ~NotMoveObject(L.obj[id])
    /\ Get(L.obj[id].fields, "id") # Undef

\* C2: getAllJobs, getAllUserProfiles and getAllEmployerProfiles return
\* exactly the records of the listed ids whose fetch and decode succeed, in
\* the registry's order; an id that fails is left out and no error reaches
\* the caller.
C2_ScanKeepsDecodableInOrder ==
    call.op \in {"getAllJobs", "getAllUserProfiles", "getAllEmployerProfiles"}
      => LET kept == SelectSeq(Listed(ledger, call.down, call.op),
                               LAMBDA id : Decodes(ledger, call.down, id.s))
         IN  /\ result # Threw
             /\ result.t = "array"
             /\ Len(result.a) = Len(kept)
             /\ \A k \in 1..Len(kept) : result.a[k].id = kept[k]

\* three listed profiles, one of them malformed, two returned
C2_Witness ==
    /\ call.op = "getAllUserProfiles"
    /\ call.down = {}
    /\ Len(Listed(ledger, {}, "getAllUserProfiles")) = 3
    /\ Cardinality({i \in 1..3 :
          ~Decodes(ledger, {}, Listed(ledger, {}, "getAllUserProfiles")[i].s)}) = 1
    /\ result.t = "array"
    /\ Len(result.a) = 2

\* what each read gives when it has nothing to give
EmptyResult(op) ==
    IF op \in {"getJob", "getUserProfile", "getEmployerProfile", "getJobBoard",
               "getUserProfileByAddress", "getEmployerProfileByAddress",
               "simple.getUserProfileByAddress", "simple.getEmployerProfileByAddress",
               "getApplication"}
    THEN Null
    ELSE IF op = "getStatistics"
    THEN [t |-> "object", totalJobs |-> Num(0), activeJobs |-> Num(0),
          totalApplications |-> Num(0), totalUsers |-> Num(0),
          totalEmployers |-> Num(0), filledJobs |-> Num(0)]
    ELSE Arr(<<>>)

\* C8: no read operation of the Query Facade lets an error reach its caller;
\* when every fetch fails, a list read completes with the empty list, a
\* single-record read with null and getStatistics with all counts zero.
C8_ReadsNeverThrow ==
    call # NoCall
      => /\ result # Threw
         /\ call.down = FetchKeys(ledger) => result = EmptyResult(call.op)

\* statistics over a populated board while the endpoint is unreachable
C8_Witness ==
    /\ call.op = "getStatistics"
    /\ call.down = FetchKeys(ledger)
    /\ ~NotMoveObject(ledger.obj[jobBoardId])
    /\ Len(ledger.obj[jobBoardId].fields.job_ids.a) > 0
    /\ result = EmptyResult("getStatistics")

\* a fetch the call performs has failed: the endpoint is unreachable, or a
\* scan could read its registry but not one of the listed records
FetchFailed ==
    \/ call.down = FetchKeys(ledger)
    \/ /\ call.op \in {"getAllJobs", "getAllUserProfiles", "getAllEmployerProfiles"}
       /\ \E i \in 1..Len(Listed(ledger, call.down, call.op)) :
             Listed(ledger, call.down, call.op)[i].s \in call.down

\* C8 as stated: whenever an underlying fetch fails the read completes with
\* an empty list or null.
C8_AnyFailureGivesEmptyOrNull ==
    (call # NoCall /\ FetchFailed) => result \in {Null, Arr(<<>>)}

-----------------------------------------------------------------------------
(* SpecJobs: the active-job filter over boards whose jobs are open, past   *)
(* their deadline, filled, closed, or unreadable                           *)

JobVariants == {"open", "expired", "hired", "closed", "hiredClosed", "nodata"}

JobEnvelope(i, variant) ==
    LET Job(hired, active, deadline) ==
          MoveObject(JobFields(ObjectId("job", i), Address("e", 1), Null, DecStr(0), hired, active,
                               DecStr(deadline)))
    IN  CASE variant = "open" -> Job(Null, TRUE, MaxTime)
          [] variant = "expired" -> Job(Null, TRUE, 0)
          [] variant = "hired" -> Job(Address("c", 1), TRUE, MaxTime)
          [] variant = "closed" -> Job(Null, FALSE, MaxTime)
          [] variant = "hiredClosed" -> Job(Address("c", 1), FALSE, MaxTime)
          [] variant = "nodata" -> NoData

\* a ledger whose board lists the jobs variants describes
JobsLedger(variants) ==
    LET n == Len(variants) IN
    Ledger([id \in {ObjectId("job", i) : i \in 1..n} |->
              LET i == CHOOSE k \in 1..n : ObjectId("job", k) = id IN
              JobEnvelope(i, variants[i])]
           @@ (jobBoardId :> MoveObject(JobBoardFields(IdList("job", n))))
           @@ (userRegistryId :> MoveObject(UserRegistryFields(<<>>)))
           @@ (employerRegistryId :> MoveObject(EmployerRegistryFields(<<>>))),
           <<>>, <<>>)

JobsInit ==
    /\ ledger \in {JobsLedger(variants) : variants \in SeqsUpTo(JobVariants, MaxIds)}
    /\ call = NoCall
    /\ result = Undef
    /\ ui = <<>>
    /\ txs = <<>>

\* the listing asked for at clock reading now
ActiveJobsAt ==
    \E down \in ScanDowns(ledger), now \in 0..MaxTime :
       Returns("getActiveJobs", <<now>>, down, getActiveJobs(ledger.obj, down))

SpecJobs == JobsInit /\ [][ActiveJobsAt]_vars

\* C3: getActiveJobs returns exactly the jobs of getAllJobs, in board order,
\* whose isActive is true and that carry no hired candidate; a job with a
\* hired candidate is never returned, and an active unfilled job is returned
\* also when its deadline has passed.
C3_ActiveJobsAreOpenUnfilled ==
    call.op = "getActiveJobs"
      => LET all == getAllJobs(ledger.obj, call.down).a IN
         /\ result.t = "array"
         /\ result.a = SelectSeq(all, LAMBDA job :
                          job.isActive = Bool(TRUE) /\ job.hiredCandidate = Undef)
         /\ \A k \in 1..Len(result.a) : result.a[k].hiredCandidate = Undef
         /\ \A i \in 1..Len(all) :
               (/\ all[i].isActive = Bool(TRUE)
                /\ all[i].hiredCandidate = Undef
                /\ all[i].deadline.n < call.args[1])
                 => \E k \in 1..Len(result.a) : result.a[k] = all[i]

\* a board with a filled job and an open job past its deadline: only the
\* latter is listed
C3_Witness ==
    /\ call.op = "getActiveJobs"
    /\ call.down = {}
    /\ result.t = "array"
    /\ Len(result.a) = 1
    /\ result.a[1].deadline.n < call.args[1]
    /\ \E i \in 1..Len(getAllJobs(ledger.obj, {}).a) :
          /\ getAllJobs(ledger.obj, {}).a[i].isActive = Bool(TRUE)
          /\ getAllJobs(ledger.obj, {}).a[i].hiredCandidate = Address("c", 1)

-----------------------------------------------------------------------------
(* SpecOwner: find-by-owner in both SDK variants, over registries of       *)
(* profiles and the ledger's index of the objects an address owns          *)

\* the i-th profile of a registry: owned by the first or the second address,
\* unreadable, or lacking its id
OwnerEnvelope(kind, i, variant) ==
    LET who == IF kind = "user"
               THEN (IF variant = "second" THEN Address("c", 2) ELSE Address("c", 1))
               ELSE (IF variant = "second" THEN Address("e", 2) ELSE Address("e", 1))
        fields == IF kind = "user"
                  THEN UserProfileFields(ObjectId("user", i), who, DecStr(0))
                  ELSE EmployerProfileFields(ObjectId("employer", i), who, DecStr(0))
    IN  CASE variant \in {"first", "second"} -> MoveObject(fields)
          [] variant = "nodata" -> NoData
          [] variant = "noid" -> MoveObject(Without(fields, "id"))

OwnerLedger(kind, variants, mine) ==
    LET n == Len(variants) IN
    Ledger([id \in {ObjectId(kind, i) : i \in 1..n} |->
              LET i == CHOOSE k \in 1..n : ObjectId(kind, k) = id IN
              OwnerEnvelope(kind, i, variants[i])]
           @@ (jobBoardId :> MoveObject(JobBoardFields(<<>>)))
           @@ (userRegistryId :>
                 MoveObject(UserRegistryFields(
                    IdList("user", IF kind = "user" THEN n ELSE 0))))
           @@ (employerRegistryId :>
                 MoveObject(EmployerRegistryFields(
                    IdList("employer", IF kind = "employer" THEN n ELSE 0)))),
           <<>>,
           IF kind = "employer"
           THEN (<<Address("e", 1).s, "EmployerProfile">> :> mine) ELSE <<>>)

OwnerInit ==
    /\ LET variantSeqs == SeqsUpTo({"first", "second", "nodata", "noid"}, MaxIds)
           \* the answers of fetch-owned-objects for the first address: some
           \* of the profile objects, in the index's order
           OwnedLists(n) ==
             LET ids == {ObjectId("employer", i) : i \in 1..n} IN
             {<<>>} \cup {<<x>> : x \in ids}
               \cup {<<q[1], q[2]>> : q \in {r \in ids \X ids : r[1] # r[2]}}
       IN  ledger \in {OwnerLedger("user", variants, <<>>) : variants \in variantSeqs}
                      \cup UNION {{OwnerLedger("employer", variants, mine) :
                                     mine \in OwnedLists(Len(variants))} :
                                  variants \in variantSeqs}
    /\ call = NoCall
    /\ result = Undef
    /\ ui = <<>>
    /\ txs = <<>>

SpecOwner ==
    OwnerInit /\ [][\/ CallGetUserProfileByAddress
                    \/ CallGetEmployerProfileByAddress
                    \/ CallSimpleGetUserProfileByAddress
                    \/ CallSimpleGetEmployerProfileByAddress]_vars

\* the registry a find-by-owner operation answers for, and the property of a
\* stored profile that names its owner
OwnerRegistry(op) ==
    IF op \in {"getUserProfileByAddress", "simple.getUserProfileByAddress"}
    THEN [scan |-> "getAllUserProfiles", key |-> "user_address"]
    ELSE [scan |-> "getAllEmployerProfiles", key |-> "employer_address"]

\* the owner address a returned profile carries
OwnerOf(profile) ==
    IF "userAddress" \in DOMAIN profile THEN profile.userAddress
    ELSE profile.employerAddress

\* C4: with every fetch answered, getUserProfileByAddress(a) and
\* getEmployerProfileByAddress(a) of both SDK variants return a profile whose
\* owner address is a, or null; and null only when the registry lists no
\* decodable profile whose owner address is a.
C4_FindByOwner ==
    (/\ call.op \in {"getUserProfileByAddress", "getEmployerProfileByAddress",
                     "simple.getUserProfileByAddress",
                     "simple.getEmployerProfileByAddress"}
     /\ call.down = {})
      => LET r == OwnerRegistry(call.op)
             ids == Listed(ledger, {}, r.scan)
         IN  /\ result # Threw
             /\ result # Null => OwnerOf(result) = call.args[1]
             /\ result = Null =>
                   ~\E i \in 1..Len(ids) :
                       /\ Decodes(ledger, {}, ids[i].s)
                       /\ Get(ledger.obj[ids[i].s].fields, r.key) = call.args[1]

-----------------------------------------------------------------------------
(* Transaction Builder: post_job                                           *)

\* tx.object(id) and tx.pure(value, type)
ObjectArg(id) == [kind |-> "object", id |-> id]
PureArg(type, value) == [kind |-> "pure", type |-> type, value |-> value]

\* the call description of post_job; the optional salary goes by truthiness
createPostJobTransaction(params) ==
    LET salaryArg == IF Truthy(params.salary)
                     THEN PureArg("vector<u64>", Arr(<<params.salary>>))
                     ELSE PureArg("vector<u64>", Arr(<<>>))
    IN  [target |-> <<packageId, "minihub", "post_job">>,
         arguments |-> <<ObjectArg(Str(jobBoardId)),
                         ObjectArg(params.employerProfileId),
                         PureArg("string", params.title),
                         PureArg("string", params.description),
                         salaryArg,
                         PureArg("u64", params.deadline)>>]

\* the simple variant: tx.pure.vector('u64', ...), tx.pure.string, tx.pure.u64
SimpleCreatePostJobTransaction(params) ==
    LET salaryArg == IF Truthy(params.salary)
                     THEN PureArg("vector<u64>", Arr(<<params.salary>>))
                     ELSE PureArg("vector<u64>", Arr(<<>>))
    IN  [target |-> <<packageId, "minihub", "post_job">>,
         arguments |-> <<ObjectArg(Str(jobBoardId)),
                         ObjectArg(params.employerProfileId),
                         PureArg("string", params.title),
                         PureArg("string", params.description),
                         salaryArg,
                         PureArg("u64", params.deadline)>>]

\* apply_to_job, hire_candidate and create_user_profile, as the full SDK
\* builds them: tx.pure(value, type)
createApplyToJobTransaction(params) ==
    [target |-> <<packageId, "minihub", "apply_to_job">>,
     arguments |-> <<ObjectArg(params.jobId),
                     ObjectArg(params.userProfileId),
                     PureArg("string", params.coverMessage),
                     PureArg("string", params.cvUrl),
                     ObjectArg(Str(clockId))>>]

\* hire_candidate with the index passed before the address
createHireCandidateSwapped(params) ==
    [target |-> <<packageId, "minihub", "hire_candidate">>,
     arguments |-> <<ObjectArg(params.jobId),
                     ObjectArg(params.employerCapId),
                     PureArg("u64", params.candidateIndex),
                     PureArg("address", params.candidateAddress)>>]

createHireCandidateTransaction(params) ==
    [target |-> <<packageId, "minihub", "hire_candidate">>,
     arguments |-> <<ObjectArg(params.jobId),
                     ObjectArg(params.employerCapId),
                     PureArg("address", params.candidateAddress),
                     PureArg("u64", params.candidateIndex)>>]

createUserProfileTransaction(params) ==
    [target |-> <<packageId, "minihub", "create_user_profile">>,
     arguments |-> <<ObjectArg(Str(userRegistryId)),
                     PureArg("string", params.name),
                     PureArg("string", params.bio),
                     PureArg("string", params.avatarUrl),
                     PureArg("vector<string>", params.skills),
                     PureArg("u64", params.experienceYears),
                     PureArg("string", params.portfolioUrl),
                     ObjectArg(Str(clockId))>>]

\* the same builders of the simple variant: tx.pure.string(value),
\* tx.pure.vector('string', value), tx.pure.u64(value), tx.pure.address(value)
SimpleCreateApplyToJobTransaction(params) ==
    [target |-> <<packageId, "minihub", "apply_to_job">>,
     arguments |-> <<ObjectArg(params.jobId),
                     ObjectArg(params.userProfileId),
                     PureArg("string", params.coverMessage),
                     PureArg("string", params.cvUrl),
                     ObjectArg(Str(clockId))>>]

SimpleCreateHireCandidateTransaction(params) ==
    [target |-> <<packageId, "minihub", "hire_candidate">>,
     arguments |-> <<ObjectArg(params.jobId),
                     ObjectArg(params.employerCapId),
                     PureArg("address", params.candidateAddress),
                     PureArg("u64", params.candidateIndex)>>]

SimpleCreateUserProfileTransaction(params) ==
    [target |-> <<packageId, "minihub", "create_user_profile">>,
     arguments |-> <<ObjectArg(Str(userRegistryId)),
                     PureArg("string", params.name),
                     PureArg("string", params.bio),
                     PureArg("string", params.avatarUrl),
                     PureArg("vector<string>", params.skills),
                     PureArg("u64", params.experienceYears),
                     PureArg("string", params.portfolioUrl),
                     ObjectArg(Str(clockId))>>]

SimpleCreateUpdateUserProfileTransaction(params) ==
    [target |-> <<packageId, "minihub", "update_user_profile">>,
     arguments |-> <<ObjectArg(params.userProfileId),
                     PureArg("string", params.name),
                     PureArg("string", params.bio),
                     PureArg("string", params.avatarUrl),
                     PureArg("vector<string>", params.skills),
                     PureArg("u64", params.experienceYears),
                     PureArg("string", params.portfolioUrl),
                     ObjectArg(Str(clockId))>>]

-----------------------------------------------------------------------------
(* SpecBuild: the post_job builder of both variants applied to parameters  *)

MaxLen == 2

\* the texts typed into a form: letters and spaces
Texts == {Str(t) : t \in SeqsUpTo({" ", "a"}, MaxLen)}

\* one SDK instance shared by every caller (constructor: client and config)
BuildInit ==
    /\ ledger = ScanLedger("job", <<"ok">>, "ok")
    /\ call = NoCall
    /\ result = Undef
    /\ ui = [client |-> "client",
             config |-> [packageId |-> packageId, jobBoardId |-> jobBoardId,
                         userRegistryId |-> userRegistryId,
                         employerRegistryId |-> employerRegistryId,
                         clockId |-> clockId]]
    /\ txs = <<>>

\* a builder that also hands its transaction to the signer
BuiltAndSubmitted(op, params, tx) ==
    /\ call' = [op |-> op, args |-> <<params>>]
    /\ result' = tx
    /\ txs' = Append(txs, tx)
    /\ UNCHANGED <<ledger, ui>>

\* a builder returns its call description; it may be called at any time
Built(op, params, tx) ==
    /\ call' = [op |-> op, args |-> <<params>>]
    /\ result' = tx
    /\ UNCHANGED <<ledger, ui, txs>>

BuildPostJob ==
    \E simple \in BOOLEAN,
       params \in [employerProfileId : {Str(ObjectId("employer", 1))},
                   title : Texts,
                   description : {SomeText},
                   salary : {Undef} \cup {Num(n) : n \in (0 - 1)..MaxSalary},
                   deadline : {Num(n) : n \in 0..MaxTime}] :
       IF simple
       THEN Built("simple.createPostJobTransaction", params,
                  SimpleCreatePostJobTransaction(params))
       ELSE Built("createPostJobTransaction", params, createPostJobTransaction(params))

BuildApplyToJob ==
    \E simple \in BOOLEAN,
       params \in [jobId : {Str(ObjectId("job", 1))},
                   userProfileId : {Str(ObjectId("user", 1))},
                   coverMessage : Texts,
                   cvUrl : {Str(<<>>), SomeText}] :
       IF simple
       THEN Built("simple.createApplyToJobTransaction", params,
                  SimpleCreateApplyToJobTransaction(params))
       ELSE Built("createApplyToJobTransaction", params,
                  createApplyToJobTransaction(params))

BuildHireCandidate ==
    \E simple \in BOOLEAN,
       params \in [jobId : {Str(ObjectId("job", 1))},
                   employerCapId : {Str(ObjectId("cap", 1))},
                   candidateAddress : Candidates,
                   candidateIndex : {Num(n) : n \in (0 - 1)..MaxCount}] :
       IF simple
       THEN Built("simple.createHireCandidateTransaction", params,
                  SimpleCreateHireCandidateTransaction(params))
       ELSE Built("createHireCandidateTransaction", params,
                  createHireCandidateTransaction(params))

BuildCreateUserProfile ==
    \E simple \in BOOLEAN,
       params \in [name : {Str(<<>>), SomeText},
                   bio : {Str(<<>>), SomeText},
                   avatarUrl : {SomeText},
                   skills : {Arr(<<>>), Arr(<<SomeText>>)},
                   experienceYears : {Num(n) : n \in (0 - 1)..MaxCount},
                   portfolioUrl : {SomeText}] :
       IF simple
       THEN Built("simple.createUserProfileTransaction", params,
                  SimpleCreateUserProfileTransaction(params))
       ELSE Built("createUserProfileTransaction", params,
                  createUserProfileTransaction(params))

SpecBuild ==
    BuildInit /\ [][\/ BuildPostJob
                    \/ BuildApplyToJob
                    \/ BuildHireCandidate
                    \/ BuildCreateUserProfile
                    \/ CallGetJob
                    \/ CallGetAllJobs]_vars

\* C5: createPostJobTransaction passes the salary as the empty u64 vector
\* exactly when params.salary is absent, and as the one-element vector
\* [salary] for every present salary, 0 included.
C5_SalaryVector ==
    call.op \in {"createPostJobTransaction", "simple.createPostJobTransaction"}
      => result.arguments[5] =
            PureArg("vector<u64>",
                    IF call.args[1].salary = Undef THEN Arr(<<>>)
                    ELSE Arr(<<call.args[1].salary>>))

-----------------------------------------------------------------------------
(* SpecProfilePage: sessions of the Profile page of one wallet address,    *)
(* each loading the profile by address and saving through the signer       *)

MaxTxs == 2

Sessions == {"tab1", "tab2"}

\* the form contents of a session when the page mounts
ProfileData ==
    [name |-> Str(<<>>), bio |-> Str(<<>>), avatarUrl |-> Str(<<>>),
     skills |-> Arr(<<>>), experienceYears |-> Num(0), portfolioUrl |-> Str(<<>>)]

\* the ledger after create_user_profile by sender: a new profile owned by the
\* sender is appended to the registry, which enforces no uniqueness of owners
CreateUserProfileOnLedger(L, sender) ==
    LET registry == L.obj[userRegistryId].fields
        n == Len(registry.user_profiles.a)
        id == ObjectId("user", n + 1)
    IN  [L EXCEPT !.obj =
           (id :> MoveObject(UserProfileFields(id, sender, DecStr(0))))
           @@ (userRegistryId :>
                 MoveObject(UserRegistryFields(
                    Append(registry.user_profiles.a, Str(id)))))
           @@ L.obj]

PageInit ==
    /\ ledger \in {OwnerLedger("user", <<>>, <<>>),
                    OwnerLedger("user", <<"first">>, <<>>)}
    /\ call = NoCall
    /\ result = Undef
    /\ ui = [s \in Sessions |->
               [userAddress |-> Address("c", 1), isLoading |-> TRUE, profileId |-> Null,
                profileData |-> ProfileData, isSaving |-> FALSE, saveStatus |-> Null, timers |-> 0]]
    /\ txs = <<>>

\* useEffect: loadProfile
LoadProfile(s) ==
    /\ ui[s].isLoading
    /\ \E down \in {{}, FetchKeys(ledger)} :
         LET profile == TryCatch(
                 SimpleGetUserProfileByAddress(ledger.obj, down, ui[s].userAddress),
                 Null)
         IN  ui' = [ui EXCEPT ![s].isLoading = FALSE,
                              ![s].profileData =
                                  IF Truthy(profile)
                                  THEN [k \in DOMAIN ProfileData |-> profile[k]] ELSE @,
                              ![s].profileId =
                                  IF Truthy(profile) THEN profile.id ELSE @]
    /\ UNCHANGED <<ledger, call, result, txs>>

\* handleSave: update when a profile id was loaded, create otherwise; the
\* transaction is handed to the signer and isSaving is cleared at once
HandleSave(s) ==
    /\ ~ui[s].isLoading
    /\ Truthy(ui[s].userAddress)
    /\ Len(txs) < MaxTxs
    /\ LET tx == IF Truthy(ui[s].profileId)
                 THEN SimpleCreateUpdateUserProfileTransaction(
                        ui[s].profileData @@
                        [userProfileId |-> ui[s].profileId])
                 ELSE SimpleCreateUserProfileTransaction(ui[s].profileData)
       IN  txs' = Append(txs, [tx |-> tx, sender |-> ui[s].userAddress,
                               session |-> s, status |-> "pending"])
    /\ ui' = [ui EXCEPT ![s].isSaving = FALSE, ![s].saveStatus = Null]
    /\ UNCHANGED <<ledger, call, result>>

\* the signer executed the transaction: onSuccess arms the reload timer
SaveSucceeded(i) ==
    /\ i \in 1..Len(txs)
    /\ txs[i].status = "pending"
    /\ txs' = [txs EXCEPT ![i].status = "executed"]
    /\ ledger' = IF txs[i].tx.target[3] = "create_user_profile"
                 THEN CreateUserProfileOnLedger(ledger, txs[i].sender)
                 ELSE ledger
    /\ ui' = [ui EXCEPT ![txs[i].session].saveStatus = Str(<<"success">>),
                        ![txs[i].session].timers = @ + 1]
    /\ UNCHANGED <<call, result>>

\* the signer or the ledger rejected the transaction: onError
SaveFailed(i) ==
    /\ i \in 1..Len(txs)
    /\ txs[i].status = "pending"
    /\ txs' = [txs EXCEPT ![i].status = "rejected"]
    /\ ui' = [ui EXCEPT ![txs[i].session].saveStatus = Str(<<"error">>)]
    /\ UNCHANGED <<ledger, call, result>>

\* the timer set by onSuccess: the profile is read again by address
ReloadProfile(s) ==
    /\ ui[s].timers > 0
    /\ \E down \in {{}, FetchKeys(ledger)} :
         LET profile == TryCatch(
                 SimpleGetUserProfileByAddress(ledger.obj, down, ui[s].userAddress),
                 Null)
         IN  ui' = [ui EXCEPT ![s].timers = @ - 1,
                              ![s].profileData =
                                  IF Truthy(profile)
                                  THEN [k \in DOMAIN ProfileData |-> profile[k]] ELSE @,
                              ![s].profileId =
                                  IF Truthy(profile) THEN profile.id ELSE @]
    /\ UNCHANGED <<ledger, call, result, txs>>

SpecProfilePage ==
    PageInit /\ [][\/ \E s \in Sessions : LoadProfile(s)
                   \/ \E s \in Sessions : HandleSave(s)
                   \/ \E i \in 1..MaxTxs : SaveSucceeded(i)
                   \/ \E i \in 1..MaxTxs : SaveFailed(i)
                   \/ \E s \in Sessions : ReloadProfile(s)]_vars

\* C6: under every interleaving of Profile-page sessions of one owner
\* address at most one create-profile transaction is ever submitted for the
\* address, and the registry never lists two profiles with that owner.
C6_AtMostOneCreatePerOwner ==
    /\ Cardinality({i \in 1..Len(txs) :
          /\ txs[i].tx.target[3] = "create_user_profile"
          /\ txs[i].sender = Address("c", 1)}) <= 1
    /\ Cardinality({i \in 1..Len(ledger.obj[userRegistryId].fields.user_profiles.a) :
          ledger.obj[ledger.obj[userRegistryId].fields.user_profiles.a[i].s]
            .fields.user_address = Address("c", 1)}) <= 1

-----------------------------------------------------------------------------
(* SpecApply: the ApplyJobModal opened on a job record of the listing      *)

\* JavaScript s.trim(), on the character sequence of a string
RECURSIVE trim(_)
trim(t) ==
    IF t = <<>> THEN t
    ELSE IF Head(t) = " " THEN trim(Tail(t))
    ELSE IF t[Len(t)] = " " THEN trim(SubSeq(t, 1, Len(t) - 1))
    ELSE t

\* a board of jobs, and the candidate's profile in the UserRegistry or not
ApplyLedger(variants, hasProfile) ==
    [JobsLedger(variants) EXCEPT !.obj =
        (IF hasProfile
         THEN (ObjectId("user", 1) :> MoveObject(UserProfileFields(ObjectId("user", 1), Address("c", 1), DecStr(0))))
              @@ (userRegistryId :> MoveObject(UserRegistryFields(IdList("user", 1))))
         ELSE <<>>) @@ @]

ApplyInit ==
    /\ ledger \in {ApplyLedger(variants, hasProfile) :
                      variants \in SeqsUpTo(JobVariants \ {"nodata"}, MaxCount + 1)
                                     \ {<<>>},
                      hasProfile \in BOOLEAN}
    /\ call = NoCall
    /\ result = Undef
    \* the modal as mounted on one of the jobs the reading layer returned
    /\ ui \in {[job |-> getAllJobs(ledger.obj, {}).a[i],
                userAddress |-> a,
                userProfileId |-> Null,
                isLoadingProfile |-> TRUE,
                isSubmitting |-> FALSE,
                applicationData |-> [coverMessage |-> m, cvUrl |-> SomeText],
                submitStatus |-> Null,
                pending |-> 0] :
                  i \in 1..Len(getAllJobs(ledger.obj, {}).a),
                  a \in {Undef, Address("c", 1)}, m \in Texts}
    /\ txs = <<>>

\* useEffect: loadProfile
ApplyLoadProfile ==
    /\ ui.isLoadingProfile
    /\ \E down \in {{}, FetchKeys(ledger)} :
         LET profile == IF ~Truthy(ui.userAddress) THEN Null
                        ELSE TryCatch(SimpleGetUserProfileByAddress(
                                        ledger.obj, down, ui.userAddress), Null)
         IN  ui' = [ui EXCEPT !.isLoadingProfile = FALSE,
                              !.userProfileId =
                                  IF Truthy(profile) THEN profile.id ELSE @]
    /\ UNCHANGED <<ledger, call, result, txs>>

\* handleSubmit of the application form
ApplyHandleSubmit ==
    /\ Len(txs) < MaxTxs
    /\ IF ~Truthy(ui.userAddress)
       THEN /\ ui' = [ui EXCEPT !.submitStatus = Str(<<"error">>)]
            /\ UNCHANGED txs
       ELSE IF ~Truthy(ui.userProfileId)
       THEN /\ ui' = [ui EXCEPT !.submitStatus = Str(<<"error">>)]
            /\ UNCHANGED txs
       ELSE IF ~Truthy(Str(trim(ui.applicationData.coverMessage.s)))
       THEN /\ ui' = [ui EXCEPT !.submitStatus = Str(<<"error">>)]
            /\ UNCHANGED txs
       ELSE /\ txs' = Append(txs,
                        [tx |-> SimpleCreateApplyToJobTransaction(
                                   [jobId |-> ui.job.id,
                                    userProfileId |-> ui.userProfileId,
                                    coverMessage |-> ui.applicationData.coverMessage,
                                    cvUrl |-> ui.applicationData.cvUrl]),
                         job |-> ui.job])
            /\ ui' = [ui EXCEPT !.isSubmitting = FALSE, !.submitStatus = Null,
                                !.pending = @ + 1]
    /\ UNCHANGED <<ledger, call, result>>

\* onSuccess / onError of the signer
ApplySucceeded ==
    /\ ui.pending > 0
    /\ ui' = [ui EXCEPT !.pending = @ - 1, !.submitStatus = Str(<<"success">>)]
    /\ UNCHANGED <<ledger, call, result, txs>>

ApplyFailed ==
    /\ ui.pending > 0
    /\ ui' = [ui EXCEPT !.pending = @ - 1, !.submitStatus = Str(<<"error">>)]
    /\ UNCHANGED <<ledger, call, result, txs>>

SpecApply ==
    ApplyInit /\ [][\/ ApplyLoadProfile
                    \/ ApplyHandleSubmit
                    \/ ApplySucceeded
                    \/ ApplyFailed]_vars

\* C7: the client never builds an apply_to_job transaction for a job whose
\* record carries a hired candidate, whatever its isActive flag says.
C7_NoApplicationToFilledJob ==
    \A i \in 1..Len(txs) :
       txs[i].tx.target[3] = "apply_to_job" => ~Truthy(txs[i].job.hiredCandidate)

-----------------------------------------------------------------------------
(* SpecStats: getStatistics with each of its four sub-reads failing or not *)

\* a ledger with the jobs variants describes, users user profiles and
\* employers employer profiles, in which one registry object may be unreadable
StatsLedger(variants, users, employers, unreadable) ==
    LET n == Len(variants)
        Root(id, fields, who) ==
            id :> (IF unreadable = who THEN NoData ELSE MoveObject(fields))
    IN  Ledger([id \in {ObjectId("job", i) : i \in 1..n} |->
                  LET i == CHOOSE k \in 1..n : ObjectId("job", k) = id IN
                  JobEnvelope(i, variants[i])]
               @@ [id \in {ObjectId("user", i) : i \in 1..users} |->
                     LET i == CHOOSE k \in 1..users : ObjectId("user", k) = id IN
                     ScanEnvelope("user", i, "ok")]
               @@ [id \in {ObjectId("employer", i) : i \in 1..employers} |->
                     LET i == CHOOSE k \in 1..employers : ObjectId("employer", k) = id IN
                     ScanEnvelope("employer", i, "ok")]
               @@ Root(jobBoardId, JobBoardFields(IdList("job", n)), "board")
               @@ Root(userRegistryId, UserRegistryFields(IdList("user", users)),
                       "users")
               @@ Root(employerRegistryId,
                       EmployerRegistryFields(IdList("employer", employers)),
                       "employers"),
               <<>>, <<>>)

StatsInit ==
    /\ ledger \in {StatsLedger(variants, users, employers, unreadable) :
                      variants \in SeqsUpTo({"open", "expired", "hired", "nodata"}, MaxIds),
                      users \in 0..MaxCount, employers \in 0..MaxCount,
                      unreadable \in {"none", "board", "users", "employers"}}
    /\ call = NoCall
    /\ result = Undef
    /\ ui = <<>>
    /\ txs = <<>>

\* getStatistics while each sub-read (Board, UserRegistry, EmployerRegistry,
\* job scan) reaches the endpoint or not
StatisticsAt ==
    \E downs \in [1..4 -> {{}, FetchKeys(ledger)}], now \in {0, MaxTime} :
       /\ call = NoCall
       /\ call' = [op |-> "getStatistics", args |-> <<now>>, downs |-> downs]
       /\ result' = getStatistics(ledger.obj, downs, now)
       /\ UNCHANGED <<ledger, ui, txs>>

SpecStats == StatsInit /\ [][StatisticsAt]_vars

\* the count a registry object stores, when the sub-read can read the object
StoredCount(id, name, down) ==
    IF id \in down \/ NotMoveObject(ledger.obj[id]) THEN Undef
    ELSE Num(ParseDec(ledger.obj[id].fields[name].s, 0))

\* C9: getStatistics completes with a result whichever sub-reads fail, and
\* its totals are the stored counts, not the scan: totalJobs is the Board's
\* job count and totalUsers / totalEmployers the registries' counts whenever
\* the sub-read of that object succeeds.
C9_TotalsAreStoredCounts ==
    call.op = "getStatistics"
      => LET jobs == StoredCount(jobBoardId, "job_count", call.downs[1])
             users == StoredCount(userRegistryId, "user_count", call.downs[2])
             employers == StoredCount(employerRegistryId, "employer_count",
                                      call.downs[3])
         IN  /\ result # Threw
             /\ result.t = "object"
             /\ jobs # Undef => result.totalJobs = jobs
             /\ users # Undef => result.totalUsers = users
             /\ employers # Undef => result.totalEmployers = employers

\* the job scan failed while the Board could be read: the total is the
\* Board's count although no job was scanned
C9_Witness ==
    /\ call.op = "getStatistics"
    /\ call.downs[1] = {}
    /\ call.downs[4] = FetchKeys(ledger)
    /\ StoredCount(jobBoardId, "job_count", {}) = Num(MaxIds)
    /\ result.totalJobs = Num(MaxIds)
    /\ result.activeJobs = Num(0)

-----------------------------------------------------------------------------
(* SpecCreateJob: the CreateJob page (validateForm, handleSubmit) and the  *)
(* SDK's validatePostJobParams                                             *)

TitleLimit == 200

\* a <= b on JavaScript numbers: false when either side is NaN
Le(a, b) == a.t = "number" /\ b.t = "number" /\ a.n <= b.n

\* parseFloat(text) and new Date(text).getTime() on the texts of the form: a
\* run of decimal digits is its value, anything else NaN
parseFloat(v) ==
    IF v.s # <<>> /\ \A i \in 1..Len(v.s) : IsDigit(v.s[i])
    THEN Num(ParseDec(v.s, 0)) ELSE NaN

DateGetTime(v) == parseFloat(v)

\* validatePostJobParams: the list of its error messages, by field
validatePostJobParams(params, now) ==
    LET errors ==
          (IF ~Truthy(params.title) \/ Len(trim(params.title.s)) = 0
           THEN <<"title">> ELSE <<>>)
          \o (IF Len(params.title.s) > TitleLimit THEN <<"titleLength">> ELSE <<>>)
          \o (IF ~Truthy(params.description) \/ Len(trim(params.description.s)) = 0
              THEN <<"description">> ELSE <<>>)
          \o (IF Le(params.deadline, Num(now)) THEN <<"deadline">> ELSE <<>>)
    IN  [t |-> "object", valid |-> Bool(Len(errors) = 0), errors |-> Arr(errors)]

\* a form check that takes the title as typed
validateFormUntrimmed(jobData, now) ==
    (IF ~Truthy(jobData.title) THEN {"title"} ELSE {})
      \cup (IF ~Truthy(Str(trim(jobData.description.s))) THEN {"description"} ELSE {})
      \cup (IF Truthy(jobData.hasSalary) /\ ~Truthy(jobData.salary)
            THEN {"salary"} ELSE {})
      \cup (IF ~Truthy(jobData.deadline) \/ Le(DateGetTime(jobData.deadline), Num(now))
            THEN {"deadline"} ELSE {})

\* validateForm: the keys of newErrors
validateForm(jobData, now) ==
    (IF ~Truthy(Str(trim(jobData.title.s))) THEN {"title"} ELSE {})
      \cup (IF ~Truthy(Str(trim(jobData.description.s))) THEN {"description"} ELSE {})
      \cup (IF Truthy(jobData.hasSalary) /\ ~Truthy(jobData.salary)
            THEN {"salary"} ELSE {})
      \cup (IF ~Truthy(jobData.deadline) \/ Le(DateGetTime(jobData.deadline), Num(now))
            THEN {"deadline"} ELSE {})

CreateJobInit ==
    /\ ledger \in {OwnerLedger("employer", <<"first">>, mine) :
                      mine \in {<<>>, <<ObjectId("employer", 1)>>}}
    /\ call = NoCall
    /\ result = Undef
    /\ ui \in [jobData : [title : Texts,
                          description : {Str(<<>>), SomeText},
                          salary : {Str(<<>>), DecStr(0), DecStr(MaxSalary)},
                          hasSalary : {Bool(FALSE), Bool(TRUE)},
                          deadline : {Str(<<>>), DecStr(0), DecStr(MaxTime)}],
               userAddress : {Undef, Address("e", 1)},
               employerProfileId : {Null},
               isLoadingProfile : {TRUE},
               errors : {{}},
               isSubmitting : {FALSE},
               submitStatus : {Null},
               pending : {0},
               timers : {0}]
    /\ txs = <<>>

\* useEffect: loadEmployerProfile
CreateJobLoadProfile ==
    /\ ui.isLoadingProfile
    /\ \E down \in {{}, FetchKeys(ledger)} :
         LET profile == IF ~Truthy(ui.userAddress) THEN Null
                        ELSE TryCatch(SimpleGetEmployerProfileByAddress(
                                        ledger, down, ui.userAddress), Null)
         IN  ui' = [ui EXCEPT !.isLoadingProfile = FALSE,
                              !.employerProfileId =
                                  IF Truthy(profile) THEN profile.id ELSE @]
    /\ UNCHANGED <<ledger, call, result, txs>>

\* handleSubmit of the form, at clock reading now
CreateJobHandleSubmit ==
    \E now \in 0..MaxTime :
       /\ ~ui.isLoadingProfile
       /\ Len(txs) < MaxTxs
       /\ call' = [op |-> "handleSubmit", args |-> <<ui.jobData, now>>,
                   before |-> Len(txs)]
       /\ LET newErrors == validateForm(ui.jobData, now)
              salary == IF Truthy(ui.jobData.hasSalary) /\ Truthy(ui.jobData.salary)
                        THEN parseFloat(ui.jobData.salary) ELSE Undef
          IN  IF newErrors # {}
              THEN /\ ui' = [ui EXCEPT !.errors = newErrors]
                   /\ UNCHANGED txs
              ELSE IF ~Truthy(ui.userAddress) \/ ~Truthy(ui.employerProfileId)
              THEN /\ ui' = [ui EXCEPT !.errors = newErrors,
                                       !.submitStatus = Str(<<"error">>)]
                   /\ UNCHANGED txs
              ELSE /\ txs' = Append(txs, SimpleCreatePostJobTransaction(
                                [employerProfileId |-> ui.employerProfileId,
                                 title |-> ui.jobData.title,
                                 description |-> ui.jobData.description,
                                 salary |-> salary,
                                 deadline |-> DateGetTime(ui.jobData.deadline)]))
                   /\ ui' = [ui EXCEPT !.errors = newErrors, !.isSubmitting = FALSE,
                                       !.submitStatus = Null, !.pending = @ + 1]
       /\ UNCHANGED <<ledger, result>>

\* onSuccess of the signer: the form is reset by a timer
PostJobSucceeded ==
    /\ ui.pending > 0
    /\ ui' = [ui EXCEPT !.pending = @ - 1, !.timers = @ + 1,
                        !.submitStatus = Str(<<"success">>)]
    /\ UNCHANGED <<ledger, call, result, txs>>

PostJobFailed ==
    /\ ui.pending > 0
    /\ ui' = [ui EXCEPT !.pending = @ - 1, !.submitStatus = Str(<<"error">>)]
    /\ UNCHANGED <<ledger, call, result, txs>>

ResetFormTimer ==
    /\ ui.timers > 0
    /\ ui' = [ui EXCEPT !.timers = @ - 1,
                        !.jobData = [title |-> Str(<<>>), description |-> Str(<<>>),
                                     salary |-> Str(<<>>), hasSalary |-> Bool(FALSE),
                                     deadline |-> Str(<<>>)],
                        !.submitStatus = Null]
    /\ UNCHANGED <<ledger, call, result, txs>>

\* the SDK's validator applied to the request typed into the form
CallValidatePostJobParams ==
    \E now \in 0..MaxTime :
       /\ call = NoCall
       /\ call' = [op |-> "validatePostJobParams",
                   args |-> <<[title |-> ui.jobData.title,
                               description |-> ui.jobData.description,
                               deadline |-> DateGetTime(ui.jobData.deadline)], now>>,
                   before |-> Len(txs)]
       /\ result' = validatePostJobParams(
                       [title |-> ui.jobData.title,
                        description |-> ui.jobData.description,
                        deadline |-> DateGetTime(ui.jobData.deadline)], now)
       /\ UNCHANGED <<ledger, ui, txs>>

SpecCreateJob ==
    CreateJobInit /\ [][\/ CreateJobLoadProfile
                        \/ CreateJobHandleSubmit
                        \/ PostJobSucceeded
                        \/ PostJobFailed
                        \/ ResetFormTimer
                        \/ CallValidatePostJobParams]_vars

\* a title that is empty or made of spaces only
Blank(v) == \A i \in 1..Len(v.s) : v.s[i] = " "

\* C10: a post-job request whose title is empty or whitespace-only fails
\* validation: validatePostJobParams answers valid = false with a title
\* error, CreateJob's handleSubmit stops at validateForm with a title error,
\* and no post_job call is built for it.
C10_BlankTitleIsRejected ==
    /\ (call.op = "validatePostJobParams" /\ Blank(call.args[1].title))
         => /\ result.valid = Bool(FALSE)
            /\ \E i \in 1..Len(result.errors.a) : result.errors.a[i] = "title"
    /\ (call.op = "handleSubmit" /\ Blank(call.args[1].title))
         => /\ "title" \in ui.errors
            /\ Len(txs) = call.before
    /\ \A i \in 1..Len(txs) : ~Blank(txs[i].arguments[3].value)

\* a form that is complete but for its whitespace title was submitted by an
\* employer with a profile, and nothing was built
C10_Witness ==
    /\ call.op = "handleSubmit"
    /\ call.args[1].title = Str(<<" ">>)
    /\ ui.errors = {"title"}
    /\ Truthy(ui.userAddress)
    /\ Truthy(ui.employerProfileId)
    /\ txs = <<>>

-----------------------------------------------------------------------------
(* SpecProfileForm: one Profile page whose form is edited before saving    *)

NameLimit == 100
YearsLimit == 50

\* validateUserProfileParams: the list of its error messages, by field
validateUserProfileParams(params) ==
    LET errors ==
          (IF ~Truthy(params.name) \/ Len(trim(params.name.s)) = 0
           THEN <<"name">> ELSE <<>>)
          \o (IF Len(params.name.s) > NameLimit THEN <<"nameLength">> ELSE <<>>)
          \o (IF ~Truthy(params.bio) \/ Len(trim(params.bio.s)) = 0
              THEN <<"bio">> ELSE <<>>)
          \o (IF Gt(Num(0), params.experienceYears)
                 \/ Gt(params.experienceYears, Num(YearsLimit))
              THEN <<"experienceYears">> ELSE <<>>)
    IN  [t |-> "object", valid |-> Bool(Len(errors) = 0), errors |-> Arr(errors)]

\* the onChange handlers of the name, bio and experience inputs: one field of
\* the form takes what was typed (experience: parseInt(value) || 0)
EditProfileData(s) ==
    /\ ~ui[s].isLoading
    /\ \E edit \in {[name |-> v] : v \in {Str(<<>>), Str(<<" ">>), SomeText,
                                          Str([i \in 1..NameLimit + 1 |-> "a"])}}
                   \cup {[bio |-> v] : v \in {Str(<<>>), SomeText}}
                   \cup {[experienceYears |-> Num(n)] : n \in {0 - 1, 0, YearsLimit + 1}} :
         ui' = [ui EXCEPT ![s].profileData = edit @@ @]
    /\ UNCHANGED <<ledger, call, result, txs>>

SpecProfileForm ==
    PageInit /\ [][\/ LoadProfile("tab1")
                   \/ EditProfileData("tab1")
                   \/ HandleSave("tab1")]_vars

\* C11: no create_user_profile or update_user_profile transaction is built
\* for form contents that fail the profile validation (blank name or bio,
\* name longer than 100 characters, experienceYears outside 0..50).
C11_InvalidProfileNeverBuilt ==
    \A i \in 1..Len(txs) :
       validateUserProfileParams(
          [name |-> txs[i].tx.arguments[2].value,
           bio |-> txs[i].tx.arguments[3].value,
           experienceYears |-> txs[i].tx.arguments[6].value]).valid = Bool(TRUE)

-----------------------------------------------------------------------------
(* Claims on the transaction builders (SpecBuild)                          *)

\* the builder operations, by the entry point they call
EntryPoint(op) ==
    CASE op \in {"createPostJobTransaction", "simple.createPostJobTransaction"} -> "post_job"
      [] op \in {"createApplyToJobTransaction", "simple.createApplyToJobTransaction"} ->
           "apply_to_job"
      [] op \in {"createHireCandidateTransaction", "simple.createHireCandidateTransaction"} ->
           "hire_candidate"
      [] op \in {"createUserProfileTransaction", "simple.createUserProfileTransaction"} ->
           "create_user_profile"
      [] OTHER -> "none"

\* C12: no transaction builder encodes a negative numeric argument: every
\* u64 argument and every element of a u64 vector of a built call is at
\* least 0.
C12_NoNegativeArgument ==
    (call.op # "none" /\ result # Null /\ "arguments" \in DOMAIN result)
      => \A i \in 1..Len(result.arguments) :
            LET arg == result.arguments[i] IN
            arg.kind = "pure" =>
              /\ arg.type = "u64" => ~Gt(Num(0), arg.value)
              /\ arg.type = "vector<u64>" =>
                    \A k \in 1..Len(arg.value.a) : ~Gt(Num(0), arg.value.a[k])

-----------------------------------------------------------------------------
(* Claims on the read operations (SpecScan)                                *)

\* C13: getJobsByEmployer(e) returns exactly the jobs of getAllJobs() whose
\* employer address equals e, in board order, and no other job.
C13_JobsOfEmployerInOrder ==
    call.op = "getJobsByEmployer"
      => LET kept == SelectSeq(Listed(ledger, call.down, "getAllJobs"),
                       LAMBDA id : /\ Decodes(ledger, call.down, id.s)
                                   /\ ledger.obj[id.s].fields.employer = call.args[1])
             allJobs == getAllJobs(ledger.obj, call.down).a
         IN  /\ result.t = "array"
             /\ Len(result.a) = Len(kept)
             /\ \A k \in 1..Len(kept) :
                   /\ result.a[k].id = kept[k]
                   /\ result.a[k].employer = call.args[1]
                   /\ \E j \in 1..Len(allJobs) : allJobs[j] = result.a[k]

\* board [job1, job2, job3], all readable, only job2 posted by the employer
C13_Witness ==
    /\ call.op = "getJobsByEmployer"
    /\ call.down = {}
    /\ call.args[1] = Address("e", 2)
    /\ Len(getAllJobs(ledger.obj, {}).a) = 3
    /\ result.t = "array"
    /\ Len(result.a) = 1
    /\ result.a[1].id = Str(ObjectId("job", 2))

\* C14: getUserApplications(c) returns, in board order of the jobs, each
\* job's applications filtered to candidate c: every returned record has
\* candidate c, and every decodable application by c attached to a decodable
\* job listed on the Board is returned exactly once.
C14_UserApplicationsComplete ==
    call.op = "getUserApplications"
      => LET jobs == SelectSeq(Listed(ledger, call.down, "getAllJobs"),
                       LAMBDA id : Decodes(ledger, call.down, id.s))
             Attached(jobId) ==
                 IF jobId \in DOMAIN ledger.dyn /\ DynKey(jobId) \notin call.down
                 THEN ledger.dyn[jobId] ELSE <<>>
             Mine(jobId) ==
                 SelectSeq(Attached(jobId),
                    LAMBDA id : /\ Decodes(ledger, call.down, id)
                                /\ ledger.obj[id].fields.candidate = call.args[1])
             Flat[k \in 0..Len(jobs)] ==
                 IF k = 0 THEN <<>> ELSE Flat[k - 1] \o Mine(jobs[k].s)
             expected == Flat[Len(jobs)]
         IN  /\ result.t = "array"
             /\ \A k \in 1..Len(result.a) : result.a[k].candidate = call.args[1]
             /\ Len(result.a) = Len(expected)
             /\ \A k \in 1..Len(expected) : result.a[k].id = Str(expected[k])

\* C15: the number of records returned by getAllJobs (getAllUserProfiles,
\* getAllEmployerProfiles) is at most the count stored in the Board
\* (registry) object that the scan read.
C15_ScanWithinStoredCount ==
    call.op \in {"getAllJobs", "getAllUserProfiles", "getAllEmployerProfiles"}
      => LET count == StoredCount(RegistryOf(call.op).id,
                        CASE call.op = "getAllJobs" -> "job_count"
                          [] call.op = "getAllUserProfiles" -> "user_count"
                          [] call.op = "getAllEmployerProfiles" -> "employer_count",
                        call.down)
         IN  count # Undef => /\ result.t = "array"
                              /\ Len(result.a) <= count.n

\* a Board of three jobs, the fetch of one of them fails: two are returned
C15_Witness ==
    /\ call.op = "getAllJobs"
    /\ call.down = {ObjectId("job", 2)}
    /\ StoredCount(jobBoardId, "job_count", call.down) = Num(3)
    /\ Decodes(ledger, {}, ObjectId("job", 2))
    /\ Len(result.a) = 2

\* C16: getJobApplications(jobId) returns the empty list, never null or
\* undefined, when the job has no attached side-records.
C16_NoAttachmentsGivesEmptyList ==
    (/\ call.op = "getJobApplications"
     /\ (call.args[1] \in DOMAIN ledger.dyn => ledger.dyn[call.args[1]] = <<>>))
      => result = Arr(<<>>)

\* a readable job with no applications, every fetch answered
C16_Witness ==
    /\ call.op = "getJobApplications"
    /\ call.down = {}
    /\ Decodes(ledger, {}, call.args[1])
    /\ call.args[1] \in DOMAIN ledger.dyn
    /\ ledger.dyn[call.args[1]] = <<>>
    /\ result = Arr(<<>>)

\* C17: each builder of each SDK variant builds one call whose entry point
\* is <packageId>::minihub::<op> and whose arguments are in the fixed order
\* post_job(jobBoard, employerProfile, title, description, salaryVector,
\* deadline), apply_to_job(job, userProfile, coverMessage, cvUrl, clock),
\* hire_candidate(job, employerCap, candidateAddress, candidateIndex),
\* create_user_profile(userRegistry, name, bio, avatarUrl, skills,
\* experienceYears, portfolioUrl, clock); for equal params both variants
\* give the same call description.
C17_CallDescriptions ==
    EntryPoint(call.op) # "none"
      => LET p == call.args[1]
             args == result.arguments
             e == EntryPoint(call.op)
         IN  /\ result.target = <<packageId, "minihub", e>>
             /\ e = "post_job" =>
                  /\ Len(args) = 6
                  /\ args[1] = ObjectArg(Str(jobBoardId))
                  /\ args[2] = ObjectArg(p.employerProfileId)
                  /\ args[3] = PureArg("string", p.title)
                  /\ args[4] = PureArg("string", p.description)
                  /\ args[5].kind = "pure" /\ args[5].type = "vector<u64>"
                  /\ args[6] = PureArg("u64", p.deadline)
                  /\ createPostJobTransaction(p) = SimpleCreatePostJobTransaction(p)
             /\ e = "apply_to_job" =>
                  /\ args = <<ObjectArg(p.jobId), ObjectArg(p.userProfileId),
                              PureArg("string", p.coverMessage),
                              PureArg("string", p.cvUrl), ObjectArg(Str(clockId))>>
                  /\ createApplyToJobTransaction(p) = SimpleCreateApplyToJobTransaction(p)
             /\ e = "hire_candidate" =>
                  /\ args = <<ObjectArg(p.jobId), ObjectArg(p.employerCapId),
                              PureArg("address", p.candidateAddress),
                              PureArg("u64", p.candidateIndex)>>
                  /\ createHireCandidateTransaction(p)
                       = SimpleCreateHireCandidateTransaction(p)
             /\ e = "create_user_profile" =>
                  /\ args = <<ObjectArg(Str(userRegistryId)),
                              PureArg("string", p.name), PureArg("string", p.bio),
                              PureArg("string", p.avatarUrl),
                              PureArg("vector<string>", p.skills),
                              PureArg("u64", p.experienceYears),
                              PureArg("string", p.portfolioUrl),
                              ObjectArg(Str(clockId))>>
                  /\ createUserProfileTransaction(p) = SimpleCreateUserProfileTransaction(p)

\* the simple variant built hire_candidate for the second candidate at index 1
C17_Witness ==
    /\ call.op = "simple.createHireCandidateTransaction"
    /\ call.args[1].candidateAddress = Address("c", 2)
    /\ call.args[1].candidateIndex = Num(1)
    /\ result.arguments[4] = PureArg("u64", Num(1))
    /\ result = createHireCandidateTransaction(call.args[1])

\* C18: every transaction builder is a pure construction, and neither a
\* builder nor a read changes the shared SDK instance: each step of a builder
\* or a read leaves the ledger, the submitted transactions and the SDK's
\* client and config as they were, and a builder's result is determined by
\* its parameters alone, whatever was called before it.
C18_BuildersArePure ==
    [][/\ ledger' = ledger
       /\ txs' = txs
       /\ ui' = ui
       /\ EntryPoint(call'.op) # "none" =>
            result' = CASE EntryPoint(call'.op) = "post_job" ->
                             createPostJobTransaction(call'.args[1])
                        [] EntryPoint(call'.op) = "apply_to_job" ->
                             createApplyToJobTransaction(call'.args[1])
                        [] EntryPoint(call'.op) = "hire_candidate" ->
                             createHireCandidateTransaction(call'.args[1])
                        [] EntryPoint(call'.op) = "create_user_profile" ->
                             createUserProfileTransaction(call'.args[1])]_vars

\* a builder has returned: nothing was read, written or submitted, and the
\* SDK instance is the one the constructor made
C18_Witness ==
    /\ call.op = "createUserProfileTransaction"
    /\ result = createUserProfileTransaction(call.args[1])
    /\ txs = <<>>
    /\ ledger = ScanLedger("job", <<"ok">>, "ok")
    /\ ui.config.packageId = packageId
    /\ ui.client = "client"

-----------------------------------------------------------------------------
(* SpecZkLogin: the useZkLogin hook in the tabs of one browser. The tabs    *)
(* share localStorage; each tab has its own sessionStorage, URL fragment   *)
(* and hook state. result remembers the credentials of the last successful *)
(* login callback that no logout has followed.                             *)

Tabs == {"tab1", "tab2"}

\* useState initial value, also what logout sets
NoSession ==
    [isLoading |-> FALSE, error |-> Null, address |-> Null, jwt |-> Null,
     provider |-> Null]

ZkInit ==
    /\ ledger = Ledger(<<>>, <<>>, <<>>)
    /\ call = NoCall
    /\ result = Null
    /\ ui = [localStorage |-> [zklogin_address |-> Null, zklogin_jwt |-> Null,
                               zklogin_provider |-> Null],
             sessionStorage |-> [t \in Tabs |->
                                   [zklogin_nonce |-> Null, zklogin_provider |-> Null,
                                    zklogin_randomness |-> Null]],
             idToken |-> [t \in Tabs |-> Null],
             page |-> [t \in Tabs |-> "loading"],
             state |-> [t \in Tabs |-> NoSession]]
    /\ txs = <<>>

\* login: nonce, provider and randomness go to sessionStorage and the tab
\* leaves for the OAuth provider
Login(t) ==
    /\ ui.page[t] = "app"
    /\ \E provider \in {Str(<<"g">>), Str(<<"f">>)} :
         ui' = [ui EXCEPT !.sessionStorage[t] =
                              [zklogin_nonce |-> Str(<<"n">>),
                               zklogin_provider |-> provider,
                               zklogin_randomness |-> Str(<<"1">>)],
                          !.state[t] = [@ EXCEPT !.isLoading = TRUE, !.error = Null],
                          !.page[t] = "provider"]
    /\ call' = [op |-> "login", tab |-> t]
    /\ UNCHANGED <<ledger, result, txs>>

\* the provider sends the tab back with an id_token in the URL fragment, or
\* the user gives up and opens the application again
OAuthReturn(t) ==
    /\ ui.page[t] = "provider"
    /\ \E token \in {Null, Str(<<"j", "1">>), Str(<<"j", "2">>)} :
         ui' = [ui EXCEPT !.idToken[t] = token,
                          !.page[t] = "loading",
                          !.state[t] = NoSession]
    /\ call' = [op |-> "redirect", tab |-> t]
    /\ UNCHANGED <<ledger, result, txs>>

\* the tab is loaded again: the hook is mounted anew with its initial state
Reload(t) ==
    /\ ui.page[t] = "app"
    /\ ui' = [ui EXCEPT !.page[t] = "loading", !.state[t] = NoSession]
    /\ call' = [op |-> "reload", tab |-> t]
    /\ UNCHANGED <<ledger, result, txs>>

\* useEffect on mount: with an id_token the callback derives the address
\* (jwtToAddress may reject the token) and stores the credentials; without
\* one the session is restored from localStorage
HandleOAuthCallback(t) ==
    /\ ui.page[t] = "loading"
    /\ call' = [op |-> "mount", tab |-> t, idToken |-> ui.idToken[t],
                before |-> result]
    /\ LET session == ui.sessionStorage[t]
           store == ui.localStorage
       IN  IF Truthy(ui.idToken[t])
           THEN \E derived \in BOOLEAN :
                  IF /\ Truthy(session.zklogin_nonce)
                     /\ Truthy(session.zklogin_provider)
                     /\ Truthy(session.zklogin_randomness)
                     /\ derived
                  THEN LET creds == [zklogin_address |-> Str(<<"z">> \o ui.idToken[t].s),
                                     zklogin_jwt |-> ui.idToken[t],
                                     zklogin_provider |-> session.zklogin_provider]
                       IN  /\ ui' = [ui EXCEPT
                                 !.state[t] = [isLoading |-> FALSE, error |-> Null,
                                               address |-> creds.zklogin_address,
                                               jwt |-> creds.zklogin_jwt,
                                               provider |-> creds.zklogin_provider],
                                 !.localStorage = creds,
                                 !.idToken[t] = Null,
                                 !.sessionStorage[t] =
                                     [@ EXCEPT !.zklogin_nonce = Null,
                                               !.zklogin_provider = Null],
                                 !.page[t] = "app"]
                           /\ result' = creds
                  ELSE /\ ui' = [ui EXCEPT
                                 !.state[t] = [@ EXCEPT !.isLoading = FALSE,
                                                        !.error = Str(<<"e">>)],
                                 !.page[t] = "app"]
                       /\ result' = result
           ELSE /\ ui' = [ui EXCEPT
                     !.state[t] =
                         IF /\ Truthy(store.zklogin_address)
                            /\ Truthy(store.zklogin_jwt)
                            /\ Truthy(store.zklogin_provider)
                         THEN [isLoading |-> FALSE, error |-> Null,
                               address |-> store.zklogin_address,
                               jwt |-> store.zklogin_jwt,
                               provider |-> store.zklogin_provider]
                         ELSE @,
                     !.page[t] = "app"]
                /\ result' = result
    /\ UNCHANGED <<ledger, txs>>

\* a logout that leaves the token in localStorage
LogoutKeepingJwt(t) ==
    /\ ui.page[t] = "app"
    /\ ui' = [ui EXCEPT
                !.localStorage = [@ EXCEPT !.zklogin_address = Null,
                                           !.zklogin_provider = Null],
                !.sessionStorage[t] = [k \in DOMAIN @ |-> Null],
                !.state[t] = NoSession]
    /\ call' = [op |-> "logout", tab |-> t]
    /\ result' = Null
    /\ UNCHANGED <<ledger, txs>>

\* logout: the three localStorage keys are removed, sessionStorage is
\* cleared and the hook state is reset
Logout(t) ==
    /\ ui.page[t] = "app"
    /\ ui' = [ui EXCEPT
                !.localStorage = [zklogin_address |-> Null, zklogin_jwt |-> Null,
                                  zklogin_provider |-> Null],
                !.sessionStorage[t] = [k \in DOMAIN @ |-> Null],
                !.state[t] = NoSession]
    /\ call' = [op |-> "logout", tab |-> t]
    /\ result' = Null
    /\ UNCHANGED <<ledger, txs>>

SpecZkLogin ==
    ZkInit /\ [][\E t \in Tabs : \/ Login(t)
                                 \/ OAuthReturn(t)
                                 \/ Reload(t)
                                 \/ HandleOAuthCallback(t)
                                 \/ Logout(t)]_vars

\* C19: after logout() localStorage holds none of zklogin_address,
\* zklogin_jwt, zklogin_provider, the tab's sessionStorage holds no zkLogin
\* key and the hook state has address, jwt and provider null; a later mount
\* without an id_token restores no session; localStorage holds credentials
\* only between a successful login callback and the next logout.
C19_LogoutClearsCredentials ==
    /\ call.op = "logout" =>
         /\ \A k \in DOMAIN ui.localStorage : ui.localStorage[k] = Null
         /\ \A k \in DOMAIN ui.sessionStorage[call.tab] :
               ui.sessionStorage[call.tab][k] = Null
         /\ ui.state[call.tab].address = Null
         /\ ui.state[call.tab].jwt = Null
         /\ ui.state[call.tab].provider = Null
    /\ (call.op = "mount" /\ call.idToken = Null /\ call.before = Null) =>
         /\ ui.state[call.tab].address = Null
         /\ ui.state[call.tab].jwt = Null
         /\ ui.state[call.tab].provider = Null
    /\ IF result = Null
       THEN \A k \in DOMAIN ui.localStorage : ui.localStorage[k] = Null
       ELSE ui.localStorage = result

\* a tab that had logged in has logged out again while the other tab still
\* shows the session it restored
C19_Witness ==
    /\ call.op = "logout"
    /\ result = Null
    /\ ui.localStorage.zklogin_jwt = Null
    /\ \E t \in Tabs \ {call.tab} : ui.state[t].jwt # Null

-----------------------------------------------------------------------------
(* SpecHire: the employer page lists the applications of a job and hires   *)
(* one of them, while candidates go on applying                            *)

\* array.findIndex(x => x[field] === value)
findIndex(seq, field, value) ==
    LET hits == {i \in 1..Len(seq) : seq[i][field] = value} IN
    IF hits = {} THEN Num(-1)
    ELSE Num((CHOOSE i \in hits : \A k \in hits : i <= k) - 1)

\* job 1 of employer e1 with up to MaxIds - 1 applications attached (by c1,
\* c2, c1 in turn); e1 holds the capability of job 1, of another job, of
\* both, or none. hasReads tells whether the SDK object of the page has the
\* methods getJobApplications and getEmployerCaps: the page imports the
\* class from sdk/minihub-sdk-simple, and the simple variant (part_007)
\* defines neither, while minihub-sdk.ts defines both
HireInit ==
    /\ \E n \in 0..(MaxIds - 1), caps \in {<<>>, <<1>>, <<2>>, <<2, 1>>} :
         LET L == ScanLedger("app", [i \in 1..n |-> "ok"], "ok") IN
         ledger = [L EXCEPT
                     !.obj = [c \in {ObjectId("cap", caps[k]) : k \in 1..Len(caps)} |->
                                 LET k == CHOOSE j \in 1..Len(caps) : ObjectId("cap", caps[j]) = c IN
                                 MoveObject(EmployerCapFields(c, ObjectId("job", caps[k])))]
                             @@ @,
                     !.owned = (<<Address("e", 1).s, "EmployerCap">> :>
                                  [k \in 1..Len(caps) |-> ObjectId("cap", caps[k])])]
    /\ \E hasReads \in BOOLEAN :
         ui = [hasReads |-> hasReads, userAddress |-> Address("e", 1),
               applications |-> Arr(<<>>), postedJobs |-> Arr(<<>>),
               pc |-> "idle", application |-> Null, employerCap |-> Null,
               saveStatus |-> Null]
    /\ call = NoCall
    /\ result = Undef
    /\ txs = <<>>

\* handleViewApplications(job 1)
HandleViewApplications ==
    /\ ui.pc = "idle"
    /\ \E down \in {{}, FetchKeys(ledger)} :
         LET apps == IF ui.hasReads
                     THEN getJobApplications(ledger, down, ObjectId("job", 1))
                     ELSE Threw
         IN  ui' = [ui EXCEPT !.applications = TryCatch(apps, Arr(<<>>)),
                              !.saveStatus = IF apps = Threw
                                             THEN Str(<<"Failed to load applications">>)
                                             ELSE @]
    /\ UNCHANGED <<ledger, call, result, txs>>

\* a candidate's apply_to_job is executed while the page is open: one more
\* side-record is attached to the job, after the ones already there
ApplyConcurrently ==
    /\ Len(ledger.dyn[ObjectId("job", 1)]) < MaxIds
    /\ LET n == Len(ledger.dyn[ObjectId("job", 1)])
           id == ObjectId("app", n + 1)
       IN  ledger' = [ledger EXCEPT
                        !.obj = (id :> MoveObject(ScanFields("app", n + 1))) @@ @,
                        !.dyn = (ObjectId("job", 1) :> Append(@[ObjectId("job", 1)], id)) @@ @]
    /\ UNCHANGED <<call, result, ui, txs>>

\* handleHire(application), up to its first await; call keeps the request:
\* the application selected and the side-records attached at that moment
HandleHire ==
    /\ ui.pc = "idle"
    /\ Len(txs) < MaxTxs
    /\ \E i \in 1..Len(ui.applications.a) :
         /\ ui' = [ui EXCEPT !.pc = "caps", !.application = ui.applications.a[i],
                             !.employerCap = Null]
         /\ call' = [op |-> "handleHire", application |-> ui.applications.a[i],
                     attached |-> ledger.dyn[ObjectId("job", 1)],
                     enumerated |-> Null]
    /\ result' = Undef
    /\ UNCHANGED <<ledger, txs>>

\* a page that takes the first capability the address owns
HireTakeFirstCap ==
    /\ ui.pc = "caps"
    /\ \E down \in {{}, FetchKeys(ledger)} :
         LET caps == IF ui.hasReads
                     THEN getEmployerCaps(ledger, down, ui.userAddress) ELSE Threw
             employerCap == IF caps = Threw \/ Len(caps.a) = 0 THEN Null ELSE caps.a[1]
         IN  ui' = IF caps = Threw
                   THEN [ui EXCEPT !.pc = "idle",
                                   !.saveStatus = Str(<<"An error occurred while hiring">>)]
                   ELSE IF ~Truthy(employerCap)
                   THEN [ui EXCEPT !.pc = "idle",
                                   !.saveStatus =
                                      Str(<<"Employer capability not found for this job">>)]
                   ELSE [ui EXCEPT !.pc = "apps", !.employerCap = employerCap]
    /\ UNCHANGED <<ledger, call, result, txs>>

\* handleHire after getEmployerCaps has answered: the capability of the
\* application's job is looked up among the caller's capabilities
HireFindCap ==
    /\ ui.pc = "caps"
    /\ \E down \in {{}, FetchKeys(ledger)} :
         LET caps == IF ui.hasReads
                     THEN getEmployerCaps(ledger, down, ui.userAddress) ELSE Threw
             employerCap == IF caps = Threw THEN Null
                            ELSE FindOrNull(caps.a, "jobId", ui.application.jobId)
         IN  ui' = IF caps = Threw
                   THEN [ui EXCEPT !.pc = "idle",
                                   !.saveStatus = Str(<<"An error occurred while hiring">>)]
                   ELSE IF ~Truthy(employerCap)
                   THEN [ui EXCEPT !.pc = "idle",
                                   !.saveStatus =
                                      Str(<<"Employer capability not found for this job">>)]
                   ELSE [ui EXCEPT !.pc = "apps", !.employerCap = employerCap]
    /\ UNCHANGED <<ledger, call, result, txs>>

\* a page that looks the candidate up in the list it is showing
HireFromShownList ==
    /\ ui.pc = "apps"
    /\ LET jobApplications == ui.applications
           candidateIndex ==
             findIndex(jobApplications.a, "candidate", ui.application.candidate)
           tx == SimpleCreateHireCandidateTransaction(
                   [jobId |-> ui.application.jobId,
                    employerCapId |-> ui.employerCap.id,
                    candidateAddress |-> ui.application.candidate,
                    candidateIndex |-> candidateIndex])
       IN  IF candidateIndex = Num(-1)
           THEN /\ ui' = [ui EXCEPT !.pc = "idle",
                                    !.saveStatus =
                                       Str(<<"Could not determine candidate index">>)]
                /\ UNCHANGED <<call, result, txs>>
           ELSE /\ ui' = [ui EXCEPT !.pc = "idle"]
                /\ call' = [call EXCEPT !.enumerated =
                              Arr([i \in 1..Len(jobApplications.a) |->
                                      jobApplications.a[i].id.s])]
                /\ result' = tx
                /\ txs' = Append(txs, [tx |-> tx, status |-> "pending"])
    /\ UNCHANGED ledger

\* handleHire after the capability was found: the job's applications are
\* enumerated again, the index of the first one of the candidate is taken,
\* and the transaction is built and handed to the signer
HireFindIndex ==
    /\ ui.pc = "apps"
    /\ \E down \in {{}, FetchKeys(ledger)} :
         LET jobApplications ==
               IF ui.hasReads
               THEN getJobApplications(ledger, down, ui.application.jobId.s)
               ELSE Threw
             candidateIndex ==
               findIndex(jobApplications.a, "candidate", ui.application.candidate)
             tx == SimpleCreateHireCandidateTransaction(
                     [jobId |-> ui.application.jobId,
                      employerCapId |-> ui.employerCap.id,
                      candidateAddress |-> ui.application.candidate,
                      candidateIndex |-> candidateIndex])
         IN  IF jobApplications = Threw
             THEN /\ ui' = [ui EXCEPT !.pc = "idle",
                                      !.saveStatus =
                                         Str(<<"An error occurred while hiring">>)]
                  /\ UNCHANGED <<call, result, txs>>
             ELSE IF candidateIndex = Num(-1)
             THEN /\ ui' = [ui EXCEPT !.pc = "idle",
                                      !.saveStatus =
                                         Str(<<"Could not determine candidate index">>)]
                  /\ UNCHANGED <<call, result, txs>>
             ELSE /\ ui' = [ui EXCEPT !.pc = "idle"]
                  /\ call' = [call EXCEPT !.enumerated =
                                Arr([i \in 1..Len(jobApplications.a) |->
                                        jobApplications.a[i].id.s])]
                  /\ result' = tx
                  /\ txs' = Append(txs, [tx |-> tx, status |-> "pending"])
    /\ UNCHANGED ledger

\* onSuccess: the transaction was executed, so the job is filled with the
\* candidate it names; the posted jobs are read again and the list is closed
HireSucceeded ==
    \E i \in 1..Len(txs), down \in {{}, FetchKeys(ledger)} :
       /\ txs[i].status = "pending"
       /\ txs' = [txs EXCEPT ![i].status = "executed"]
       /\ ledger' = [ledger EXCEPT !.obj[ObjectId("job", 1)] =
                        MoveObject(JobFields(ObjectId("job", 1), Address("e", 1), Null,
                                             DecStr(0), txs[i].tx.arguments[3].value,
                                             FALSE, DecStr(1)))]
       /\ ui' = [ui EXCEPT !.saveStatus = Str(<<"Candidate hired successfully!">>),
                           !.postedJobs =
                              getJobsByEmployer(ledger'.obj, down, ui.userAddress),
                           !.applications = Arr(<<>>)]
       /\ UNCHANGED <<call, result>>

\* onError: the signer or the contract rejected the transaction
HireFailed ==
    \E i \in 1..Len(txs) :
       /\ txs[i].status = "pending"
       /\ txs' = [txs EXCEPT ![i].status = "rejected"]
       /\ ui' = [ui EXCEPT !.saveStatus = Str(<<"Failed to hire candidate">>)]
       /\ UNCHANGED <<ledger, call, result>>

SpecHire ==
    HireInit /\ [][\/ HandleViewApplications
                   \/ ApplyConcurrently
                   \/ HandleHire
                   \/ HireFindCap
                   \/ HireFindIndex
                   \/ HireSucceeded
                   \/ HireFailed]_vars

\* the position (from 0) of an application among the applications of its
\* candidate attached to a job, in the order they were submitted
OrdinalOf(L, application) ==
    LET ids == L.dyn[application.jobId.s]
        mine == SelectSeq(ids, LAMBDA id :
                   L.obj[id].fields.candidate = application.candidate)
    IN  Num((CHOOSE k \in 1..Len(mine) : mine[k] = application.id.s) - 1)

\* C21: the candidateIndex that handleHire passes to
\* createHireCandidateTransaction equals the ordinal position of the
\* selected application among that candidate's submissions to the job, also
\* when other candidates applied earlier or the candidate applied more than
\* once.
C21_IndexAddressesSelectedApplication ==
    (call.op = "handleHire" /\ result # Undef)
      => /\ result.arguments[3].value = call.application.candidate
         /\ result.arguments[4].value = OrdinalOf(ledger, call.application)

\* C22: handleHire resolves the candidate index again before it submits:
\* the index of a built hire transaction is the position of the candidate's
\* first application in an enumeration of the job's applications made after
\* the hire request (it holds every application attached when the request
\* was made), never in the list shown earlier, and under every interleaving
\* of concurrent applications the transaction names the candidate of the
\* selected application.
C22_IndexResolvedAfterRequest ==
    (call.op = "handleHire" /\ result # Undef)
      => /\ \A i \in 1..Len(call.attached) :
               \E k \in 1..Len(call.enumerated.a) : call.enumerated.a[k] = call.attached[i]
         /\ LET mine == {k \in 1..Len(call.enumerated.a) :
                            ledger.obj[call.enumerated.a[k]].fields.candidate
                              = call.application.candidate}
            IN  /\ mine # {}
                /\ result.arguments[4].value =
                     Num((CHOOSE k \in mine : \A m \in mine : k <= m) - 1)
         /\ result.arguments[3].value = call.application.candidate
         /\ result.arguments[1].id = call.application.jobId

\* a hire was built from an enumeration longer than the list the employer
\* chose from: a candidate applied in between
C22_Witness ==
    /\ call.op = "handleHire"
    /\ result # Undef
    /\ Len(call.enumerated.a) > Len(ui.applications.a)
    /\ Len(ui.applications.a) > 0

\* C25: handleHire builds a hire_candidate transaction only if
\* getEmployerCaps(userAddress) holds a capability whose jobId is the
\* application's jobId, and passes that capability's id; when there is none
\* it builds and submits nothing and reports an error.
C25_HireNeedsCapabilityOfJob ==
    call.op = "handleHire"
      => LET caps == getEmployerCaps(ledger, {}, ui.userAddress).a
             mine == {k \in 1..Len(caps) : caps[k].jobId = call.application.jobId}
         IN  /\ result # Undef
                  => \E k \in mine : result.arguments[2].id = caps[k].id
             /\ ui.pc = "apps"
                  => \E k \in mine : ui.employerCap = caps[k]
             /\ (mine = {} /\ ui.pc = "idle")
                  => /\ result = Undef
                     /\ txs = <<>>
                     /\ ui.saveStatus \in
                          {Str(<<"Employer capability not found for this job">>),
                           Str(<<"An error occurred while hiring">>),
                           Str(<<"Failed to load applications">>)}

\* the employer holds the capability of another job first and that of this
\* job second, and the hire carries the second
C25_Witness ==
    /\ call.op = "handleHire"
    /\ result # Undef
    /\ Len(ledger.owned[<<Address("e", 1).s, "EmployerCap">>]) = 2
    /\ result.arguments[2].id = Str(ObjectId("cap", 1))

-----------------------------------------------------------------------------
(* Claims on the side-records of a job, checked on SpecScan                *)

\* C23: getApplication(jobId, candidate, index) returns the application
\* stored under the key (candidate, index) of that job, or null when there
\* is none; for a candidate with several applications to the same job,
\* different indices return different applications.
C23_ApplicationByCandidateAndIndex ==
    (/\ call.op = "getApplication"
     /\ call.down = {}
     /\ call.args[1] \in DOMAIN ledger.dyn
     /\ \A k \in 1..Len(ledger.dyn[call.args[1]]) :
           Decodes(ledger, {}, ledger.dyn[call.args[1]][k]))
      => LET mine == SelectSeq(ledger.dyn[call.args[1]],
                        LAMBDA id : ledger.obj[id].fields.candidate = call.args[2])
         IN  result = IF call.args[3] + 1 <= Len(mine)
                      THEN ApplicationOf(ledger.obj[mine[call.args[3] + 1]].fields)
                      ELSE Null

\* C24: getJobApplications(jobId) follows the partial-failure policy of the
\* registry scan: it returns one decoded record for every side-record
\* attached to the job that is fetchable and well-formed, also when another
\* attached entry fails to fetch or to decode (only that entry is dropped).
C24_WalkerDropsOnlyFailingEntry ==
    (/\ call.op = "getJobApplications"
     /\ call.args[1] \in DOMAIN ledger.dyn
     /\ DynKey(call.args[1]) \notin call.down)
      => LET expected == SelectSeq(ledger.dyn[call.args[1]],
                            LAMBDA id : Decodes(ledger, call.down, id))
         IN  /\ result.t = "array"
             /\ Len(result.a) = Len(expected)
             /\ \A k \in 1..Len(expected) :
                   result.a[k] = ApplicationOf(ledger.obj[expected[k]].fields)

-----------------------------------------------------------------------------
(* Claims on the statistics, checked on SpecStats                          *)

\* C26: the active count of getStatistics() agrees with getActiveJobs(): on
\* any ledger read without failures, getStatistics().activeJobs is the
\* number of jobs getActiveJobs() returns (isActive and no hired candidate,
\* deadline expiry not applied).
C26_ActiveCountAgreesWithActiveJobs ==
    (call.op = "getStatistics" /\ \A k \in 1..4 : call.downs[k] = {})
      => result.activeJobs = Num(Len(getActiveJobs(ledger.obj, {}).a))

\* C26 as amended: on a ledger read without failures,
\* getStatistics().activeJobs is the number of the jobs getActiveJobs()
\* returns whose deadline has not passed at the time of the call; it never
\* exceeds the number of jobs getActiveJobs() returns.
C26_ActiveCountIsUnexpiredActiveJobs ==
    (call.op = "getStatistics" /\ \A k \in 1..4 : call.downs[k] = {})
      => LET active == getActiveJobs(ledger.obj, {}).a IN
         /\ result.activeJobs =
              Num(Len(SelectSeq(active, LAMBDA job : ~(call.args[1] > job.deadline.n))))
         /\ result.activeJobs.n <= Len(active)

\* statistics read at a time when one of two open, unfilled jobs has expired
C26_Witness ==
    /\ call.op = "getStatistics"
    /\ \A k \in 1..4 : call.downs[k] = {}
    /\ result.activeJobs = Num(1)
    /\ Len(getActiveJobs(ledger.obj, {}).a) = 2
    /\ result.filledJobs = Num(1)

\* C28: in every result of getStatistics(), activeJobs + filledJobs <=
\* totalJobs, also when one of the concurrent sub-reads (the Board read, the
\* job scan) fails while the other succeeds.
C28_ActivePlusFilledWithinTotal ==
    call.op = "getStatistics"
      => result.activeJobs.n + result.filledJobs.n <= result.totalJobs.n

-----------------------------------------------------------------------------
(* Claim on the optional fields of a Job, checked on SpecDecode            *)

\* C27: decoding a Job whose stored salary option is empty yields salary
\* undefined, the record still being returned; decoding a Job whose salary
\* option holds v yields salary = v for every v, 0 included; an absent hired
\* candidate decodes to unset.
C27_SalaryDecodesToItsValue ==
    (/\ call.op = "getJob"
     /\ call.down = {}
     /\ call.args[1] \in DOMAIN ledger.obj
     /\ ~Malformed("getJob", ledger.obj[call.args[1]])
     /\ {"salary", "hired_candidate"} \subseteq DOMAIN ledger.obj[call.args[1]].fields)
      => LET fields == ledger.obj[call.args[1]].fields IN
         /\ result # Null
         /\ fields.salary = Null => result.salary = Undef
         /\ fields.salary.t = "string" => result.salary = Num(ParseDec(fields.salary.s, 0))
         /\ fields.salary.t = "number" => result.salary = fields.salary
         /\ fields.hired_candidate = Null => result.hiredCandidate = Undef

-----------------------------------------------------------------------------
(* Claim on the in-flight flag, checked on SpecProfilePage                 *)

\* C29: while a transaction handed to the signer by a save handler has
\* completed neither onSuccess nor onError, the in-flight flag isSaving of
\* its page is true (the save button is disabled), so the page hands no
\* second transaction to the signer; in particular one session never submits
\* two create-profile transactions for one address.
C29_InFlightFlagHeldWhilePending ==
    /\ \A i \in 1..Len(txs) :
          txs[i].status = "pending" => ui[txs[i].session].isSaving
    /\ \A i, j \in 1..Len(txs) :
          (/\ i < j
           /\ txs[i].session = txs[j].session
           /\ txs[i].tx.target[3] = "create_user_profile"
           /\ txs[j].tx.target[3] = "create_user_profile")
            => txs[i].sender # txs[j].sender

-----------------------------------------------------------------------------
(* Claim on the instances of the zkLogin hook, checked on SpecZkLogin      *)

\* C30: all mounted instances of the useZkLogin hook agree on the session:
\* after logout() is called through any one instance, no mounted instance
\* reports isConnected = true or a non-null address.
C30_InstancesAgreeAfterLogout ==
    call.op = "logout"
      => \A t \in Tabs : ui.page[t] = "app" => ui.state[t].address = Null

=============================================================================
